---- MODULE Spec2Model ----
(***************************************************************************)
(* Open Rack Vent: the device sequencer (configure_pwm_pin,                *)
(* configure_gpio_pin), the fan-power paths of the HTTP and MQTT control   *)
(* surfaces, and the MQTT surface thread (telemetry loop, shutdown, stop). *)
(*                                                                         *)
(* Every host I/O operation (one config-pin run, one echo_value write, one *)
(* probe read, one publish) is one step of the thread that performs it;    *)
(* pure computation between two I/O operations belongs to the step that    *)
(* follows it.  ops[t] and pubs[t] are the I/O performed by thread t for   *)
(* the request it is handling; they are cleared when t takes a new one.    *)
(***************************************************************************)
EXTENDS Integers, Sequences, FiniteSets, TLC

VARIABLES
    wire_mapping, \* the WireMapping the hardware interface was built from
    gpiofs,     \* the gpio numbers whose node /sys/class/gpio/gpio<n> exists
    call,       \* per thread: the frame of its configure_*_pin call
    ops,        \* per thread: config-pin runs and echo_value writes attempted
    pubs,       \* per thread: client.publish calls made
    net,        \* MQTT network thread: the on_message activation
    netloop,    \* MQTT network loop: "running" or "crashed"
    http,       \* HTTP worker: the change_fan_power activation
    thread,     \* the MQTT surface thread: "initial", "started" or "exited"
    thread_stop_event, \* the surface's stop event: set or not
    tel,        \* the MQTT surface thread's position in thread_target
    stopper,    \* the caller of the surface handle's stop()
    conn,       \* MQTT network thread: the on_connect activation
    broker,     \* what the broker holds for this client: will, retained status
    webreq,     \* HTTP worker: the temperature or indicator request it handles
    coord,      \* the coordinator thread: its position in run and what it did
    scheduler,  \* the BackgroundScheduler of run and its blink jobs
    surface,    \* per control surface handle: "none", "created", "started", "stopped"
    pwmfs,      \* the content of the PWM attribute files, where it is tracked
    lookup      \* the last resolution of a connector marking to its device

seqvars == <<gpiofs, call, ops>>
fanvars == <<pubs, net, netloop, http>>
cfgvars == <<wire_mapping>>
lifevars == <<thread, thread_stop_event, tel, stopper>>
connvars == <<conn, broker>>
webvars == <<webreq>>
runvars == <<coord, scheduler, surface>>
devvars == <<pwmfs, lookup>>
vars == <<wire_mapping, gpiofs, call, ops, pubs, net, netloop, http,
          thread, thread_stop_event, tel, stopper, conn, broker, webreq,
          coord, scheduler, surface, pwmfs, lookup>>

Threads == {"seq", "net", "http"}

(***************************************************************************)
(* Bounds of the model.                                                    *)
(***************************************************************************)
\* a duty fraction / power is the rational num / DutyDen
DutyDen == 2
\* fan channels bound to the upper intake location are at most MaxChannels
MaxChannels == 2
\* probes per sensor location: 0 .. MaxProbes
MaxProbes == 3

(***************************************************************************)
(* Numbers: float powers as rationals, int() and floor.                    *)
(***************************************************************************)
Fin(n) == [fin |-> TRUE, num |-> n]
\* float("nan"), float("inf"): a float that int() refuses
NonFinite == [fin |-> FALSE, num |-> 0]

\* the mathematical floor of n / d, d > 0
Floor(n, d) == n \div d

\* Python int(x) of the float n / d: truncation toward zero
IntTruncRoundsUp(n, d) == Floor(n + d - 1, d)
IntTrunc(n, d) == IF n >= 0 THEN n \div d ELSE -((-n) \div d)

\* int(period_ns * duty_pct) for duty_pct = num / DutyDen
duty_cycle_value(period_ns, num) == IntTrunc(period_ns * num, DutyDen)

(***************************************************************************)
(* Pin tables of beaglebone_black.py.                                      *)
(***************************************************************************)
PWMPin == {"P9_31", "P9_29", "P9_22", "P9_14", "P9_16", "P8_19", "P8_13"}

PWMChannel(id, ch) == [pwm_id |-> id, channel |-> ch]

PWM_CHANNEL_LOOKUP(pin) ==
    CASE pin = "P9_31" -> PWMChannel(0, "a")
      [] pin = "P9_29" -> PWMChannel(0, "b")
      [] pin = "P9_22" -> PWMChannel(0, "a")
      [] pin = "P9_14" -> PWMChannel(1, "a")
      [] pin = "P9_16" -> PWMChannel(1, "b")
      [] pin = "P8_19" -> PWMChannel(2, "a")
      [] pin = "P8_13" -> PWMChannel(2, "b")

GPIOPin == {"P8_17", "P8_28", "P8_18", "P8_16", "P9_41", "P9_13", "P9_11",
            "P9_42", "P9_12"}

GPIOBankIndex(b, i) == [gpio_bank |-> b, gpio_index |-> i]

GPIO_LOOKUP(pin) ==
    CASE pin = "P8_16" -> GPIOBankIndex(1, 14)
      [] pin = "P8_17" -> GPIOBankIndex(0, 27)
      [] pin = "P8_18" -> GPIOBankIndex(2, 1)
      [] pin = "P8_28" -> GPIOBankIndex(2, 24)
      [] pin = "P9_11" -> GPIOBankIndex(0, 30)
      [] pin = "P9_12" -> GPIOBankIndex(1, 28)
      [] pin = "P9_13" -> GPIOBankIndex(0, 31)
      [] pin = "P9_41" -> GPIOBankIndex(0, 20)
      [] pin = "P9_42" -> GPIOBankIndex(0, 7)

\* gpio_num = (bank_index.gpio_bank * 32) + bank_index.gpio_index
gpio_numBankOfEight(pin) == (GPIO_LOOKUP(pin).gpio_bank * 8) + GPIO_LOOKUP(pin).gpio_index
gpio_num(pin) == (GPIO_LOOKUP(pin).gpio_bank * 32) + GPIO_LOOKUP(pin).gpio_index

BoardMarkingActiveLowPWM == {"ONBOARD", "PN1", "PN2", "PN3", "PN4", "PN5"}
OnboardLED == {"RUN", "WEB", "FAULT"}

\* BBB_V100_BOARD_MARKINGS_TO_PINS.pwm
board_marking_pwmPn4OnP9_31(marking) ==
    CASE marking = "ONBOARD" -> "P8_13"
      [] marking = "PN1" -> "P9_14"
      [] marking = "PN2" -> "P9_16"
      [] marking = "PN3" -> "P9_22"
      [] marking = "PN4" -> "P9_31"
      [] marking = "PN5" -> "P8_19"
board_marking_pwm(marking) ==
    CASE marking = "ONBOARD" -> "P8_13"
      [] marking = "PN1" -> "P9_14"
      [] marking = "PN2" -> "P9_16"
      [] marking = "PN3" -> "P9_22"
      [] marking = "PN4" -> "P9_29"
      [] marking = "PN5" -> "P8_19"

\* BBB_V100_BOARD_MARKINGS_TO_PINS.led
board_marking_led(led) ==
    CASE led = "RUN" -> "P9_13"
      [] led = "WEB" -> "P9_12"
      [] led = "FAULT" -> "P9_11"

(***************************************************************************)
(* Device paths and the strings echo_value writes and returns.             *)
(***************************************************************************)
\* Path(f"/dev/bone/pwm/{pwm_channel.pwm_id}/{pwm_channel.channel}")
device_tree_base_path(pin) ==
    "/dev/bone/pwm/" \o ToString(PWM_CHANNEL_LOOKUP(pin).pwm_id) \o "/"
        \o PWM_CHANNEL_LOOKUP(pin).channel

\* Path(f"/sys/class/gpio/gpio{gpio_num}")
gpio_path(pin) == "/sys/class/gpio/gpio" \o ToString(gpio_num(pin))

GPIO_EXPORT == "/sys/class/gpio/export"

joinpath(base, attr) == base \o "/" \o attr

\* the return value of echo_value: f"echo {path} > {value}"
echo_summary(path, value) == "echo " \o path \o " > " \o value

EchoOp(path, value, ok) ==
    [kind |-> "echo", target |-> path, value |-> value, ok |-> ok]
ConfigPinOp(pin, mode, ok) ==
    [kind |-> "config-pin", target |-> pin, value |-> mode, ok |-> ok]

\* the attribute files of the PWM channels; echo_value's
\* open(path, "w").write(value) replaces the content of the file
PwmFiles ==
    {joinpath(device_tree_base_path(pin), attr) :
        pin \in PWMPin, attr \in {"period", "duty_cycle", "enable"}}

\* the content of the PWM files after a step: the value of the echo_value
\* write the step performed, if it performed one
pwmfs_written ==
    [path \in PwmFiles |->
        IF \E t \in DOMAIN ops :
              /\ Len(ops'[t]) = Len(ops[t]) + 1
              /\ ops'[t][Len(ops'[t])] = EchoOp(path, ops'[t][Len(ops'[t])].value, TRUE)
        THEN LET t == CHOOSE u \in DOMAIN ops :
                         /\ Len(ops'[u]) = Len(ops[u]) + 1
                         /\ ops'[u][Len(ops'[u])].target = path
             IN ops'[t][Len(ops'[t])].value
        ELSE pwmfs[path]]

(***************************************************************************)
(* Frames of configure_pwm_pin / configure_gpio_pin.                       *)
(***************************************************************************)
NoCall ==
    [fn |-> "none", pin |-> "", period_ns |-> 0, duty_pct |-> Fin(0),
     value |-> FALSE, pc |-> "idle", cmds |-> <<>>, status |-> "none",
     node_existed |-> FALSE]

PwmCall(pin, period_ns, duty_pct) ==
    [NoCall EXCEPT !.fn = "configure_pwm_pin", !.pin = pin,
                   !.period_ns = period_ns, !.duty_pct = duty_pct,
                   !.pc = "config-pin", !.status = "running"]

GpioCall(pin, value) ==
    [NoCall EXCEPT !.fn = "configure_gpio_pin", !.pin = pin, !.value = value,
                   !.pc = "config-pin", !.status = "running"]

Raised(f) == [f EXCEPT !.pc = "done", !.status = "raised"]
Returned(f) == [f EXCEPT !.pc = "done", !.status = "returned"]

\* subprocess.run(f"config-pin {pin} {mode}", check=True): a non-zero exit raises
subprocess_runUnchecked(t, ok) ==
    /\ call[t].pc = "config-pin"
    /\ LET f == call[t]
           mode == IF f.fn = "configure_pwm_pin" THEN "pwm" ELSE "gpio"
           after == IF f.fn = "configure_pwm_pin" THEN "period" ELSE "exists"
       IN /\ ops' = [ops EXCEPT ![t] = Append(@, ConfigPinOp(f.pin, mode, ok))]
          /\ call' = [call EXCEPT ![t] = [f EXCEPT !.pc = after]]
    /\ UNCHANGED gpiofs
subprocess_run(t, ok) ==
    /\ call[t].pc = "config-pin"
    /\ LET f == call[t]
           mode == IF f.fn = "configure_pwm_pin" THEN "pwm" ELSE "gpio"
           after == IF f.fn = "configure_pwm_pin" THEN "period" ELSE "exists"
       IN /\ ops' = [ops EXCEPT ![t] = Append(@, ConfigPinOp(f.pin, mode, ok))]
          /\ call' = [call EXCEPT ![t] =
                        IF ok THEN [f EXCEPT !.pc = after] ELSE Raised(f)]
    /\ UNCHANGED gpiofs

\* one echo_value(path, value) of thread t's frame, moving it to pc `after`;
\* a write that fails raises and yields no summary string.  Writing an already
\* exported number to the gpio export file is refused by the kernel.
echo_value(t, path, value, ok, after) ==
    LET f == call[t]
        busy == path = GPIO_EXPORT /\ gpio_num(f.pin) \in gpiofs
        done == ok /\ ~busy
    IN /\ ops' = [ops EXCEPT ![t] = Append(@, EchoOp(path, value, done))]
       /\ call' = [call EXCEPT ![t] =
                     IF done
                     THEN IF after = "done"
                          THEN Returned([f EXCEPT !.cmds =
                                   Append(@, echo_summary(path, value))])
                          ELSE [f EXCEPT !.pc = after,
                                         !.cmds = Append(@, echo_summary(path, value))]
                     ELSE Raised(f)]
       /\ gpiofs' = IF done /\ path = GPIO_EXPORT
                    THEN gpiofs \cup {gpio_num(f.pin)} ELSE gpiofs

(***************************************************************************)
(* configure_pwm_pin: period, duty_cycle, enable.                          *)
(***************************************************************************)
PwmWritePeriodOmitted(t, ok) ==
    /\ call[t].fn = "configure_pwm_pin" /\ call[t].pc = "period"
    /\ call' = [call EXCEPT ![t] = [@ EXCEPT !.pc = "duty_cycle"]]
    /\ UNCHANGED <<ops, gpiofs>>
PwmWritePeriod(t, ok) ==
    /\ call[t].fn = "configure_pwm_pin" /\ call[t].pc = "period"
    /\ echo_value(t, joinpath(device_tree_base_path(call[t].pin), "period"),
                  ToString(call[t].period_ns), ok, "duty_cycle")

\* str(int(period_ns * duty_pct)): int() of nan or inf raises before the write
PwmWriteDuty(t, ok) ==
    /\ call[t].fn = "configure_pwm_pin" /\ call[t].pc = "duty_cycle"
    /\ call[t].duty_pct.fin
    /\ echo_value(t, joinpath(device_tree_base_path(call[t].pin), "duty_cycle"),
                  ToString(duty_cycle_value(call[t].period_ns, call[t].duty_pct.num)),
                  ok, "enable")

PwmDutyNotInt(t) ==
    /\ call[t].fn = "configure_pwm_pin" /\ call[t].pc = "duty_cycle"
    /\ ~call[t].duty_pct.fin
    /\ call' = [call EXCEPT ![t] = Raised(@)]
    /\ UNCHANGED <<ops, gpiofs>>

PwmWriteEnable(t, ok) ==
    /\ call[t].fn = "configure_pwm_pin" /\ call[t].pc = "enable"
    /\ echo_value(t, joinpath(device_tree_base_path(call[t].pin), "enable"),
                  ToString(1), ok, "done")

configure_pwm_pin(t) ==
    \/ \E ok \in BOOLEAN : call[t].fn = "configure_pwm_pin" /\ subprocess_run(t, ok)
    \/ \E ok \in BOOLEAN : PwmWritePeriod(t, ok)
    \/ \E ok \in BOOLEAN : PwmWriteDuty(t, ok)
    \/ PwmDutyNotInt(t)
    \/ \E ok \in BOOLEAN : PwmWriteEnable(t, ok)

(***************************************************************************)
(* configure_gpio_pin: export if the node is absent, direction, value.     *)
(***************************************************************************)
\* if not gpio_path.exists():
GpioCheckExistsAlwaysExport(t) ==
    /\ call[t].fn = "configure_gpio_pin" /\ call[t].pc = "exists"
    /\ LET f == call[t]
       IN call' = [call EXCEPT ![t] =
                     [f EXCEPT !.node_existed = gpio_num(f.pin) \in gpiofs,
                               !.pc = "export"]]
    /\ UNCHANGED <<ops, gpiofs>>
GpioCheckExists(t) ==
    /\ call[t].fn = "configure_gpio_pin" /\ call[t].pc = "exists"
    /\ LET f == call[t]
       IN call' = [call EXCEPT ![t] =
                     [f EXCEPT !.node_existed = gpio_num(f.pin) \in gpiofs,
                               !.pc = IF gpio_num(f.pin) \in gpiofs
                                      THEN "direction" ELSE "export"]]
    /\ UNCHANGED <<ops, gpiofs>>

GpioWriteExport(t, ok) ==
    /\ call[t].fn = "configure_gpio_pin" /\ call[t].pc = "export"
    /\ echo_value(t, GPIO_EXPORT, ToString(gpio_num(call[t].pin)), ok, "direction")

GpioWriteDirection(t, ok) ==
    /\ call[t].fn = "configure_gpio_pin" /\ call[t].pc = "direction"
    /\ echo_value(t, joinpath(gpio_path(call[t].pin), "direction"), "out", ok, "value")

GpioWriteValue(t, ok) ==
    /\ call[t].fn = "configure_gpio_pin" /\ call[t].pc = "value"
    /\ echo_value(t, joinpath(gpio_path(call[t].pin), "value"),
                  IF call[t].value THEN "1" ELSE "0", ok, "done")

configure_gpio_pin(t) ==
    \/ \E ok \in BOOLEAN : call[t].fn = "configure_gpio_pin" /\ subprocess_run(t, ok)
    \/ GpioCheckExists(t)
    \/ \E ok \in BOOLEAN : GpioWriteExport(t, ok)
    \/ \E ok \in BOOLEAN : GpioWriteDirection(t, ok)
    \/ \E ok \in BOOLEAN : GpioWriteValue(t, ok)


(***************************************************************************)
(* The hardware interface: create_fan_controls binds one                   *)
(* partial(configure_pwm_pin, pin, 1_000) to each marking of a fan group,  *)
(* in the order of the wire mapping.                                       *)
(***************************************************************************)
FAN_PERIOD_NS == 1000

MarkingOrder == <<"ONBOARD", "PN3", "PN1", "PN4", "PN2", "PN5">>

\* the wire mappings tried: the example mapping of board_interface_types.py
\* (upper intake ONBOARD, PN3; lower intake PN2, PN5; no upper exhaust fan),
\* with the upper intake group cut or extended to n channels
WireMapping(n) ==
    [upper_intake_fans |-> SubSeq(MarkingOrder, 1, n),
     lower_intake_fans |-> <<"PN2", "PN5">>,
     upper_exhaust_fans |-> <<>>,
     intake_thermistor_pins |-> <<"TMP0", "TMP1">>,
     exhaust_thermistor_pins |-> <<"TMP4", "TMP5">>]

WireMappings == {WireMapping(n) : n \in 0 .. MaxChannels}

\* [partial(configure_pwm_pin, board_marking_lookup.pwm[m], 1_000) for m in ...]:
\* a control is the pin it is bound to
create_fan_controlsReversed(input_board_markings) ==
    [i \in 1 .. Len(input_board_markings) |->
        board_marking_pwm(input_board_markings[Len(input_board_markings) + 1 - i])]
create_fan_controls(input_board_markings) ==
    [i \in 1 .. Len(input_board_markings) |->
        board_marking_pwm(input_board_markings[i])]

lower_intake_fan_controls == create_fan_controls(wire_mapping.lower_intake_fans)
upper_intake_fan_controls == create_fan_controls(wire_mapping.upper_intake_fans)
upper_exhaust_fan_controls == create_fan_controls(wire_mapping.upper_exhaust_fans)

(***************************************************************************)
(* RackLocation and the per-location maps the MQTT surface reads.          *)
(***************************************************************************)
RackLocationValues == {"lower_intake", "upper_intake", "upper_exhaust", "lower_exhaust"}

\* RackLocation(raw): the member whose value is raw, ValueError when there is none
RackLocation(raw) ==
    [ok |-> raw \in RackLocationValues, member |-> <<"RackLocation", raw>>]

\* the text of a member inside an f-string
rack_location_str(member) == member[2]

\* member.value
rack_location_value(member) == member[2]

\* orv_hardware_interface.fan_controllers
fan_controllers ==
    (<<"RackLocation", "lower_intake">> :> lower_intake_fan_controls)
    @@ (<<"RackLocation", "upper_intake">> :> upper_intake_fan_controls)
    @@ (<<"RackLocation", "upper_exhaust">> :> upper_exhaust_fan_controls)

\* fan_controllers.keys(), in iteration order
fan_controllers_keys ==
    << <<"RackLocation", "lower_intake">>, <<"RackLocation", "upper_intake">>,
       <<"RackLocation", "upper_exhaust">> >>

\* fan_controllers.get(rack_location): None when the key is absent
fan_controllers_get(member) ==
    IF member \in DOMAIN fan_controllers
    THEN [found |-> TRUE, controls |-> fan_controllers[member]]
    ELSE [found |-> FALSE, controls |-> <<>>]

(***************************************************************************)
(* MQTT: make_on_message.on_message.                                       *)
(***************************************************************************)
DEVICE_ID == "orv"

\* msg.payload: a decimal numeral of value num / DutyDen, a float word such as
\* nan or inf, other text, or bytes that are not UTF-8
DecimalPayload(n) == [form |-> "decimal", num |-> n]
WordPayload == [form |-> "word", num |-> 0]
TextPayload == [form |-> "text", num |-> 0]
BinaryPayload == [form |-> "binary", num |-> 0]

\* float(msg.payload.decode()): ValueError for text, UnicodeDecodeError for binary
float_payload(payload) ==
    CASE payload.form = "decimal" -> [ok |-> TRUE, value |-> Fin(payload.num)]
      [] payload.form = "word" -> [ok |-> TRUE, value |-> NonFinite]
      [] OTHER -> [ok |-> FALSE, value |-> Fin(0)]

\* f"{device_id}/fan/{rack_location}/state"
fan_state_topic(member) == DEVICE_ID \o "/fan/" \o rack_location_str(member) \o "/state"

\* json.dumps({"power": power})
json_dumps_power(power) == <<"{", "power", power, "}">>

Publish(topic, payload, retain, ok) ==
    [topic |-> topic, payload |-> payload, retain |-> retain, ok |-> ok]

Invocation(pin, power) == [pin |-> pin, power |-> power]

NetIdle ==
    [pc |-> "idle", topic |-> <<>>, payload |-> TextPayload, rack_location |-> <<>>,
     power |-> Fin(0), controls |-> <<>>, idx |-> 0, invoked |-> <<>>,
     commands |-> <<>>, outcome |-> "none"]

\* except Exception as e: LOGGER.error(...): the error ends in on_message and the
\* network loop goes on
on_message_exceptReraises == "crashed"
on_message_except == "running"

\* on_message up to its first hardware call: topic_parts = msg.topic.split("/")
\* is given as the list of segments
on_message_beginNoTopicCheck(topic, payload) ==
    LET base == [NetIdle EXCEPT !.topic = topic, !.payload = payload]
        failed == [base EXCEPT !.pc = "done", !.outcome = "error"]
        loc == RackLocation(IF Len(topic) >= 3 THEN topic[3] ELSE "")
        pw == float_payload(payload)
        got == fan_controllers_get(loc.member)
    IN IF ~loc.ok THEN failed
       ELSE IF ~pw.ok THEN failed
       ELSE IF ~got.found \/ got.controls = <<>>
            THEN [base EXCEPT !.pc = "done", !.outcome = "no-controls",
                              !.rack_location = loc.member, !.power = pw.value]
       ELSE [base EXCEPT !.pc = "controls", !.rack_location = loc.member,
                         !.power = pw.value, !.controls = got.controls, !.idx = 1,
                         !.invoked = <<Invocation(got.controls[1], pw.value)>>]
on_message_begin(topic, payload) ==
    LET base == [NetIdle EXCEPT !.topic = topic, !.payload = payload]
        failed == [base EXCEPT !.pc = "done", !.outcome = "error"]
    IN IF Len(topic) # 4 \/ topic[2] # "fan" \/ topic[4] # "set"
       THEN [base EXCEPT !.pc = "done", !.outcome = "ignored"]
       ELSE LET loc == RackLocation(topic[3])
                pw == float_payload(payload)
                got == fan_controllers_get(loc.member)
            IN IF ~loc.ok THEN failed
               ELSE IF ~pw.ok THEN failed
               ELSE IF ~got.found \/ got.controls = <<>>
                    THEN [base EXCEPT !.pc = "done", !.outcome = "no-controls",
                                      !.rack_location = loc.member,
                                      !.power = pw.value]
               ELSE [base EXCEPT !.pc = "controls", !.rack_location = loc.member,
                                 !.power = pw.value, !.controls = got.controls,
                                 !.idx = 1,
                                 !.invoked = <<Invocation(got.controls[1], pw.value)>>]

CanReceive == netloop = "running" /\ net.pc \in {"idle", "done"}

\* the network loop delivers one message to on_message
MqttReceive(topic, payload) ==
    /\ CanReceive
    /\ LET f == on_message_begin(topic, payload)
       IN /\ net' = f
          /\ netloop' = IF f.outcome = "error" THEN on_message_except ELSE netloop
          /\ call' = [call EXCEPT !["net"] =
                        IF f.pc = "controls"
                        THEN PwmCall(f.controls[1], FAN_PERIOD_NS, f.power)
                        ELSE NoCall]
    /\ ops' = [ops EXCEPT !["net"] = <<>>]
    /\ pubs' = [pubs EXCEPT !["net"] = <<>>]
    /\ UNCHANGED <<wire_mapping, gpiofs, http>>

\* itertools.chain.from_iterable(fn(power) for fn in controls): fn returned
MqttControlReturned ==
    /\ net.pc = "controls" /\ call["net"].status = "returned"
    /\ LET more == net.idx < Len(net.controls)
       IN /\ net' = [net EXCEPT
                       !.commands = @ \o call["net"].cmds,
                       !.idx = @ + 1,
                       !.pc = IF more THEN "controls" ELSE "publish",
                       !.invoked = IF more
                                   THEN Append(@, Invocation(net.controls[net.idx + 1],
                                                             net.power))
                                   ELSE @]
          /\ call' = [call EXCEPT !["net"] =
                        IF more
                        THEN PwmCall(net.controls[net.idx + 1], FAN_PERIOD_NS, net.power)
                        ELSE NoCall]
    /\ UNCHANGED <<wire_mapping, gpiofs, ops, pubs, netloop, http>>

\* fn raised: the except clause of on_message
MqttControlRaisedPublishes ==
    /\ net.pc = "controls" /\ call["net"].status = "raised"
    /\ net' = [net EXCEPT !.pc = "publish"]
    /\ call' = [call EXCEPT !["net"] = NoCall]
    /\ UNCHANGED <<wire_mapping, gpiofs, ops, pubs, netloop, http>>
MqttControlRaised ==
    /\ net.pc = "controls" /\ call["net"].status = "raised"
    /\ net' = [net EXCEPT !.pc = "done", !.outcome = "error"]
    /\ netloop' = on_message_except
    /\ call' = [call EXCEPT !["net"] = NoCall]
    /\ UNCHANGED <<wire_mapping, gpiofs, ops, pubs, http>>

\* client.publish(f"{device_id}/fan/{rack_location}/state", ..., retain=True)
MqttPublishStateNotRetained(ok) ==
    /\ net.pc = "publish"
    /\ pubs' = [pubs EXCEPT !["net"] =
                  Append(@, Publish(fan_state_topic(net.rack_location),
                                    json_dumps_power(net.power), FALSE, ok))]
    /\ net' = [net EXCEPT !.pc = "done",
                          !.outcome = IF ok THEN "published" ELSE "error"]
    /\ netloop' = IF ok THEN netloop ELSE on_message_except
    /\ UNCHANGED <<wire_mapping, gpiofs, call, ops, http>>
MqttPublishState(ok) ==
    /\ net.pc = "publish"
    /\ pubs' = [pubs EXCEPT !["net"] =
                  Append(@, Publish(fan_state_topic(net.rack_location),
                                    json_dumps_power(net.power), TRUE, ok))]
    /\ net' = [net EXCEPT !.pc = "done",
                          !.outcome = IF ok THEN "published" ELSE "error"]
    /\ netloop' = IF ok THEN netloop ELSE on_message_except
    /\ UNCHANGED <<wire_mapping, gpiofs, call, ops, http>>

\* the hardware calls on_message makes, on the network thread
MqttHardware ==
    /\ net.pc = "controls"
    /\ configure_pwm_pin("net")
    /\ UNCHANGED <<wire_mapping, pubs, net, netloop, http>>

(***************************************************************************)
(* HTTP: create_web_interface.change_fan_power.                            *)
(***************************************************************************)
RackLevel == {"lower", "upper"}
RackSide == {"intake", "exhaust"}

HttpIdle ==
    [pc |-> "idle", level |-> "", side |-> "", power |-> Fin(0), controls |-> <<>>,
     idx |-> 0, invoked |-> <<>>, commands |-> <<>>, status |-> 0]

\* the path parameters as FastAPI validates them: level: RackLevel,
\* side: RackSide, power: float = Path(ge=0, le=1.0)
path_validNoUpperLimit(level, side, power) ==
    /\ level \in RackLevel
    /\ side \in RackSide
    /\ power.fin /\ 0 <= power.num
path_valid(level, side, power) ==
    /\ level \in RackLevel
    /\ side \in RackSide
    /\ power.fin /\ 0 <= power.num /\ power.num <= DutyDen

\* the if/elif chain of change_fan_power: a ValueError where no branch binds controls
select_controlsAnyLowerSide(level, side) ==
    CASE level = "lower" ->
            [ok |-> TRUE, controls |-> lower_intake_fan_controls]
      [] level = "upper" /\ side = "intake" ->
            [ok |-> TRUE, controls |-> upper_intake_fan_controls]
      [] level = "upper" /\ side = "exhaust" ->
            [ok |-> TRUE, controls |-> upper_exhaust_fan_controls]
      [] OTHER -> [ok |-> FALSE, controls |-> <<>>]
select_controls(level, side) ==
    CASE level = "lower" /\ side = "intake" ->
            [ok |-> TRUE, controls |-> lower_intake_fan_controls]
      [] level = "upper" /\ side = "intake" ->
            [ok |-> TRUE, controls |-> upper_intake_fan_controls]
      [] level = "upper" /\ side = "exhaust" ->
            [ok |-> TRUE, controls |-> upper_exhaust_fan_controls]
      [] OTHER -> [ok |-> FALSE, controls |-> <<>>]

\* change_fan_power up to its first hardware call; the response status is 422
\* for a rejected path, 500 for an exception, 200 for a returned body
change_fan_power_begin(level, side, power) ==
    LET base == [HttpIdle EXCEPT !.level = level, !.side = side, !.power = power]
        sel == select_controls(level, side)
    IN IF ~path_valid(level, side, power)
       THEN [base EXCEPT !.pc = "done", !.status = 422]
       ELSE IF ~sel.ok THEN [base EXCEPT !.pc = "done", !.status = 500]
       ELSE IF sel.controls = <<>> THEN [base EXCEPT !.pc = "done", !.status = 200]
       ELSE [base EXCEPT !.pc = "controls", !.controls = sel.controls, !.idx = 1,
                         !.invoked = <<Invocation(sel.controls[1], power)>>]

HttpFanRequest(level, side, power) ==
    /\ http.pc \in {"idle", "done"}
    /\ LET f == change_fan_power_begin(level, side, power)
       IN /\ http' = f
          /\ call' = [call EXCEPT !["http"] =
                        IF f.pc = "controls"
                        THEN PwmCall(f.controls[1], FAN_PERIOD_NS, f.power)
                        ELSE NoCall]
    /\ ops' = [ops EXCEPT !["http"] = <<>>]
    /\ UNCHANGED <<wire_mapping, gpiofs, pubs, net, netloop>>

\* [fan_control(power) for fan_control in controls]: fan_control returned; after
\* the last one the chained lists are the "commands" of the response
HttpControlReturned ==
    /\ http.pc = "controls" /\ call["http"].status = "returned"
    /\ LET more == http.idx < Len(http.controls)
       IN /\ http' = [http EXCEPT
                        !.commands = @ \o call["http"].cmds,
                        !.idx = @ + 1,
                        !.pc = IF more THEN "controls" ELSE "done",
                        !.status = IF more THEN 0 ELSE 200,
                        !.invoked = IF more
                                    THEN Append(@, Invocation(http.controls[http.idx + 1],
                                                              http.power))
                                    ELSE @]
          /\ call' = [call EXCEPT !["http"] =
                        IF more
                        THEN PwmCall(http.controls[http.idx + 1], FAN_PERIOD_NS,
                                     http.power)
                        ELSE NoCall]
    /\ UNCHANGED <<wire_mapping, gpiofs, ops, pubs, net, netloop>>

\* fan_control raised: the exception leaves the handler
HttpControlRaisedContinues ==
    /\ http.pc = "controls" /\ call["http"].status = "raised"
    /\ LET more == http.idx < Len(http.controls)
       IN /\ http' = [http EXCEPT
                        !.idx = @ + 1,
                        !.pc = IF more THEN "controls" ELSE "done",
                        !.status = IF more THEN 0 ELSE 500,
                        !.invoked = IF more
                                    THEN Append(@, Invocation(http.controls[http.idx + 1],
                                                              http.power))
                                    ELSE @]
          /\ call' = [call EXCEPT !["http"] =
                        IF more
                        THEN PwmCall(http.controls[http.idx + 1], FAN_PERIOD_NS,
                                     http.power)
                        ELSE NoCall]
    /\ UNCHANGED <<wire_mapping, gpiofs, ops, pubs, net, netloop>>
HttpControlRaised ==
    /\ http.pc = "controls" /\ call["http"].status = "raised"
    /\ http' = [http EXCEPT !.pc = "done", !.status = 500]
    /\ call' = [call EXCEPT !["http"] = NoCall]
    /\ UNCHANGED <<wire_mapping, gpiofs, ops, pubs, net, netloop>>

HttpHardware ==
    /\ http.pc = "controls"
    /\ configure_pwm_pin("http")
    /\ UNCHANGED <<wire_mapping, pubs, net, netloop, http>>

(***************************************************************************)
(* The MQTT surface thread (run_open_rack_vent_mqtt.thread_target) and the *)
(* handle's stop().                                                        *)
(***************************************************************************)
\* hardware_interface.temperature_readers.items(): the sensor locations in
\* iteration order, each with one reader per probe of the wire mapping; a
\* reader is the marking it is bound to
temperature_readers ==
    << [location |-> "intake", readers |-> wire_mapping.intake_thermistor_pins],
       [location |-> "exhaust", readers |-> wire_mapping.exhaust_thermistor_pins] >>

\* what one read_fn() call can do: return a temperature, return None, raise
Reading(v) == [kind |-> "value", v |-> v]
NoReading == [kind |-> "none", v |-> 0]
ReadRaised == [kind |-> "raise", v |-> 0]

\* filter(None, ...) keeps the truthy elements: None and 0.0 are falsy
truthy(x) == x.kind = "value" /\ x.v # 0
filter_None(xs) == SelectSeq(xs, truthy)

RECURSIVE fsum(_)
fsum(xs) == IF xs = <<>> THEN 0 ELSE Head(xs).v + fsum(Tail(xs))

\* statistics.mean as the fraction sum/len; "unavailable" in the same shape
statistics_mean(xs) == [kind |-> "float", num |-> fsum(xs), den |-> Len(xs)]
Unavailable == [kind |-> "unavailable", num |-> 0, den |-> 1]

\* lines 247-252
telemetry_payload(reads) ==
    LET temperatures == filter_None(reads)
    IN IF temperatures # <<>> THEN statistics_mean(temperatures) ELSE Unavailable

temperature_topic(location) == DEVICE_ID \o "/temperature/" \o location

status_topic == DEVICE_ID \o "/status/online"

Will(topic, payload, retain) == [topic |-> topic, payload |-> payload, retain |-> retain]
NoWill == Will("", "", FALSE)

\* the client's network thread: its loop, the on_connect activation (position
\* in on_connect, what it has published and subscribed), and the will the
\* client has registered
ConnIdle ==
    [pc |-> "idle", idx |-> 0, log |-> <<>>, failure |-> "none", will |-> NoWill,
     loop |-> "initial"]

\* before the client connects the broker holds nothing of it; status is the
\* last payload the client published to the status topic
BrokerInit == [connected |-> FALSE, will |-> NoWill, status |-> "none", subscriptions |-> {}]

TelIdle ==
    [pc |-> "unstarted", loc |-> 0, reads |-> <<>>, passlog |-> <<>>,
     failure |-> "none", shutdown |-> <<>>]

StopperIdle == [pc |-> "idle", started |-> FALSE, later |-> FALSE]

\* the client calls of thread_target before its try, and those of its finally
\* block, in program order
thread_target_setupWillAfterConnect == <<"connect", "will_set", "loop_start">>
thread_target_setup == <<"will_set", "connect", "loop_start">>
finally_blockDisconnectFirst == <<"disconnect", "offline", "loop_stop">>
finally_block == <<"offline", "loop_stop", "disconnect">>

\* the position after statement s of a block; `after` when s is its last
following(block, s, after) ==
    LET i == CHOOSE k \in 1 .. Len(block) : block[k] = s
    IN IF i = Len(block) THEN after ELSE block[i + 1]

\* non_blocking_run = thread.start
ThreadStart ==
    /\ thread = "initial"
    /\ thread' = "started"
    /\ tel' = [tel EXCEPT !.pc = thread_target_setup[1]]
    /\ UNCHANGED <<thread_stop_event, stopper, conn, broker>>

\* mqtt_client.will_set(f"{device_id}/status/online", "offline", retain=True)
TelWillSet ==
    /\ tel.pc = "will_set"
    /\ conn' = [conn EXCEPT !.will = Will(status_topic, "offline", TRUE)]
    /\ tel' = [tel EXCEPT !.pc = following(thread_target_setup, "will_set", "test")]
    /\ UNCHANGED <<thread, thread_stop_event, stopper, broker>>

\* mqtt_client.connect: the CONNECT carries the will registered so far; it is
\* outside every try, a failure ends the thread
TelConnect(ok) ==
    /\ tel.pc = "connect"
    /\ IF ok
       THEN /\ tel' = [tel EXCEPT !.pc = following(thread_target_setup, "connect", "test")]
            /\ broker' = [broker EXCEPT !.connected = TRUE, !.will = conn.will]
            /\ UNCHANGED thread
       ELSE /\ tel' = [tel EXCEPT !.pc = "crashed"]
            /\ thread' = "exited"
            /\ UNCHANGED broker
    /\ UNCHANGED <<thread_stop_event, stopper, conn>>

\* mqtt_client.loop_start(): the network thread runs
TelLoopStart ==
    /\ tel.pc = "loop_start"
    /\ conn' = [conn EXCEPT !.loop = "running"]
    /\ tel' = [tel EXCEPT !.pc = following(thread_target_setup, "loop_start", "test")]
    /\ UNCHANGED <<thread, thread_stop_event, stopper, broker>>

\* the for loop reaching the i-th item of temperature_readers
for_location(t, i) ==
    IF i > Len(temperature_readers)
    THEN [t EXCEPT !.pc = "sleep"]
    ELSE [t EXCEPT !.loc = i, !.reads = <<>>,
                   !.pc = IF temperature_readers[i].readers = <<>>
                          THEN "publish" ELSE "read"]

\* stop_event.is_set()
stop_event_is_setNever == FALSE
stop_event_is_set == thread_stop_event

\* except Exception as e: logging.error(...): the pass ends and the loop
\* body goes on to its sleep
telemetry_exceptPropagates == finally_block[1]
telemetry_except == "sleep"

\* while not stop_event.is_set(): a new pass, or the finally block
TelTest ==
    /\ tel.pc = "test"
    /\ tel' = IF stop_event_is_set
              THEN [tel EXCEPT !.pc = finally_block[1]]
              ELSE for_location([tel EXCEPT !.passlog = <<>>, !.failure = "none"], 1)
    /\ UNCHANGED <<thread, thread_stop_event, stopper, conn, broker>>

\* one read_fn() of the list comprehension; a raise leaves the for loop for
\* the except clause of the pass
TelRead(outcome) ==
    /\ tel.pc = "read"
    /\ LET reads == Append(tel.reads, outcome)
       IN tel' = IF outcome.kind = "raise"
                 THEN [tel EXCEPT !.reads = reads, !.failure = "read", !.pc = telemetry_except]
                 ELSE [tel EXCEPT !.reads = reads,
                                  !.pc = IF Len(reads) = Len(temperature_readers[tel.loc].readers)
                                         THEN "publish" ELSE "read"]
    /\ UNCHANGED <<thread, thread_stop_event, stopper, conn, broker>>

\* mqtt_client.publish(topic, payload, retain=True)
TelPublish(ok) ==
    /\ tel.pc = "publish"
    /\ tel' = IF ok
              THEN [tel EXCEPT !.passlog =
                        Append(@, [topic |-> temperature_topic(temperature_readers[tel.loc].location),
                                   payload |-> telemetry_payload(tel.reads),
                                   retain |-> TRUE]),
                               !.pc = "published"]
              ELSE [tel EXCEPT !.failure = "publish", !.pc = telemetry_except]
    /\ UNCHANGED <<thread, thread_stop_event, stopper, conn, broker>>

\* LOGGER.info, then the next item of the for loop
TelLogPublished ==
    /\ tel.pc = "published"
    /\ tel' = for_location(tel, tel.loc + 1)
    /\ UNCHANGED <<thread, thread_stop_event, stopper, conn, broker>>

\* time.sleep(publish_interval)
TelSleep ==
    /\ tel.pc = "sleep"
    /\ tel' = [tel EXCEPT !.pc = "test"]
    /\ UNCHANGED <<thread, thread_stop_event, stopper, conn, broker>>

\* a statement of the finally block done: the next one, or the end of
\* thread_target
finally_done(s) ==
    [tel EXCEPT !.shutdown = Append(@, s), !.pc = following(finally_block, s, "finished")]

thread_after(s) ==
    IF following(finally_block, s, "finished") = "finished" THEN "exited" ELSE thread

\* finally: mqtt_client.publish(f"{device_id}/status/online", "offline",
\* retain=True); a raise here ends the thread
TelOffline(ok) ==
    /\ tel.pc = "offline"
    /\ IF ok
       THEN /\ tel' = finally_done("offline")
            /\ thread' = thread_after("offline")
            /\ broker' = [broker EXCEPT !.status = "offline"]
       ELSE /\ tel' = [tel EXCEPT !.pc = "crashed", !.failure = "offline"]
            /\ thread' = "exited"
            /\ UNCHANGED broker
    /\ UNCHANGED <<thread_stop_event, stopper, conn>>

\* mqtt_client.loop_stop(): joins the network thread, so it returns when no
\* callback is running
TelLoopStop ==
    /\ tel.pc = "loop_stop"
    /\ conn.pc # "on_connect"
    /\ tel' = finally_done("loop_stop")
    /\ thread' = thread_after("loop_stop")
    /\ conn' = [conn EXCEPT !.loop = "stopped"]
    /\ UNCHANGED <<thread_stop_event, stopper, broker>>

\* mqtt_client.disconnect(): a clean disconnect, the broker discards the will
TelDisconnect ==
    /\ tel.pc = "disconnect"
    /\ tel' = finally_done("disconnect")
    /\ thread' = thread_after("disconnect")
    /\ broker' = [broker EXCEPT !.connected = FALSE]
    /\ UNCHANGED <<thread_stop_event, stopper, conn>>

(***************************************************************************)
(* make_on_connect.on_connect, run by the network thread for each CONNACK. *)
(* A topic the client splits or matches by segment (a command topic, a     *)
(* subscription filter) is kept as its segments.                           *)
(***************************************************************************)
ConnItem(kind, topic, payload, state_topic, segments, unique_id, retain) ==
    [kind |-> kind, topic |-> topic, payload |-> payload, state_topic |-> state_topic,
     segments |-> segments, unique_id |-> unique_id, retain |-> retain]

\* client.publish(f"{device_id}/status/online", "online", retain=True)
online_item ==
    ConnItem("publish", DEVICE_ID \o "/status/online", "online", "", <<>>, "", TRUE)

\* client.subscribe(f"{device_id}/fan/+/set")
subscribe_item ==
    ConnItem("subscribe", "", "", "", <<DEVICE_ID, "fan", "+", "set">>, "", FALSE)

\* the discovery document of a sensor location (its value)
sensor_discovery(location) ==
    ConnItem("publish", "homeassistant/sensor/" \o location \o "_temperature/config",
             "config", DEVICE_ID \o "/temperature/" \o location, <<>>,
             location \o "_temperature", TRUE)

\* the discovery document of a fan location
fan_discoveryStateIsCommand(member) ==
    ConnItem("publish",
             "homeassistant/number/" \o rack_location_value(member) \o "_fan/config",
             "config",
             DEVICE_ID \o "/fan/" \o rack_location_value(member) \o "/set",
             <<DEVICE_ID, "fan", rack_location_value(member), "set">>,
             rack_location_value(member) \o "_fan", TRUE)
fan_discovery(member) ==
    ConnItem("publish",
             "homeassistant/number/" \o rack_location_value(member) \o "_fan/config",
             "config",
             DEVICE_ID \o "/fan/" \o rack_location_value(member) \o "/state",
             <<DEVICE_ID, "fan", rack_location_value(member), "set">>,
             rack_location_value(member) \o "_fan", TRUE)

\* the client calls of on_connect in program order; those after the first
\* two are inside its try
on_connect_script ==
    <<online_item, subscribe_item>>
    \o [i \in 1 .. Len(temperature_readers) |->
           sensor_discovery(temperature_readers[i].location)]
    \o [i \in 1 .. Len(fan_controllers_keys) |-> fan_discovery(fan_controllers_keys[i])]

\* the network loop receives a CONNACK (the first connect or a reconnect)
\* and calls on_connect
NetConnack ==
    /\ conn.loop = "running"
    /\ broker.connected
    /\ conn.pc \in {"idle", "done"}
    /\ conn' = [conn EXCEPT !.pc = "on_connect", !.idx = 1, !.log = <<>>,
                            !.failure = "none"]
    /\ UNCHANGED broker

\* the next client call of on_connect; an exception inside the try is logged
\* and ends the callback
OnConnectStep(ok) ==
    /\ conn.pc = "on_connect"
    /\ ok \/ conn.idx > 2
    /\ LET item == on_connect_script[conn.idx]
       IN IF ok
          THEN /\ conn' = [conn EXCEPT
                             !.log = Append(@, item),
                             !.idx = @ + 1,
                             !.pc = IF conn.idx = Len(on_connect_script)
                                    THEN "done" ELSE "on_connect"]
               /\ broker' =
                     IF item.kind = "subscribe"
                     THEN [broker EXCEPT !.subscriptions = @ \cup {item.segments}]
                     ELSE IF item.topic = status_topic
                     THEN [broker EXCEPT !.status = item.payload]
                     ELSE broker
          ELSE /\ conn' = [conn EXCEPT !.pc = "done", !.failure = "discovery"]
               /\ UNCHANGED broker

\* stop(): thread_stop_event.set()
stop_set ==
    /\ stopper.pc # "join"
    /\ thread_stop_event' = TRUE
    /\ stopper' = [pc |-> "join",
                   started |-> thread # "initial",
                   later |-> stopper.later \/ stopper.pc = "returned"]
    /\ UNCHANGED <<thread, tel, conn, broker>>

\* Thread.join returns once the thread is no longer alive
thread_joinNoWait == TRUE
thread_join == thread = "exited"

\* stop(): thread.join(); joining a thread that was not started raises
stop_join ==
    /\ stopper.pc = "join"
    /\ IF thread = "initial"
       THEN stopper' = [stopper EXCEPT !.pc = "raised"]
       ELSE thread_join /\ stopper' = [stopper EXCEPT !.pc = "returned"]
    /\ UNCHANGED <<thread, thread_stop_event, tel, conn, broker>>

(***************************************************************************)
(* The HTTP surface: GET /temperature/{side} and GET /setLED/{led}/{state}. *)
(***************************************************************************)
\* BBB_V100_BOARD_MARKINGS_TO_PINS.thermistor
board_marking_thermistor(marking) ==
    CASE marking = "TMP0" -> "P9_35"
      [] marking = "TMP1" -> "P9_36"
      [] marking = "TMP2" -> "P9_33"
      [] marking = "TMP3" -> "P9_37"
      [] marking = "TMP4" -> "P9_39"
      [] marking = "TMP5" -> "P9_38"
      [] marking = "TMP6" -> "P9_40"

ANALOG_IN_LOOKUP(adc_pin) ==
    CASE adc_pin = "P9_39" -> 0
      [] adc_pin = "P9_40" -> 1
      [] adc_pin = "P9_37" -> 2
      [] adc_pin = "P9_38" -> 3
      [] adc_pin = "P9_33" -> 4
      [] adc_pin = "P9_36" -> 5
      [] adc_pin = "P9_35" -> 6

\* the file read_adc_counts reads
adc_raw_path(adc_pin) ==
    "/sys/bus/iio/devices/iio:device0/in_voltage"
        \o ToString(ANALOG_IN_LOOKUP(adc_pin)) \o "_raw"

\* what one read_adc_counts call can do: return the counts, or raise (the
\* file cannot be read, or its content is not an integer)
AdcCounts(c) == [ok |-> TRUE, counts |-> c]
AdcRaised == [ok |-> FALSE, counts |-> 0]

\* the calibration function: counts to degrees, decreasing in the counts
temperature_converter(counts) == 100 - counts \div 50

\* the pins create_read_all_temperatures iterates over, one read each
thermistor_pinsOrDefault(input_board_markings) ==
    IF input_board_markings = <<>>
    THEN <<board_marking_thermistor("TMP0")>>
    ELSE [i \in 1 .. Len(input_board_markings) |->
             board_marking_thermistor(input_board_markings[i])]
thermistor_pins(input_board_markings) ==
    [i \in 1 .. Len(input_board_markings) |->
        board_marking_thermistor(input_board_markings[i])]

NoMean == [kind |-> "none", num |-> 0, den |-> 1]

WebIdle ==
    [pc |-> "idle", route |-> "none", name |-> "", state |-> "", pins |-> <<>>,
     adc |-> <<>>, temperatures |-> <<>>, status |-> 0, mean |-> NoMean,
     commands |-> <<>>]

\* the if/elif chain of read_average_temperature
select_read_temperatures(side) ==
    IF side = "intake" THEN wire_mapping.intake_thermistor_pins
    ELSE wire_mapping.exhaust_thermistor_pins

\* read_average_temperature up to its first ADC read; 422 for a side that is
\* not a RackSide
read_average_temperature_begin(side) ==
    LET base == [WebIdle EXCEPT !.route = "temperature", !.name = side]
    IN IF side \notin RackSide
       THEN [base EXCEPT !.pc = "done", !.status = 422]
       ELSE LET pins == thermistor_pins(select_read_temperatures(side))
            IN [base EXCEPT !.pins = pins,
                            !.pc = IF pins = <<>> THEN "mean" ELSE "read"]

HttpTemperatureRequest(side) ==
    /\ webreq.pc \in {"idle", "done"}
    /\ webreq' = read_average_temperature_begin(side)
    /\ call' = [call EXCEPT !["http"] = NoCall]
    /\ ops' = [ops EXCEPT !["http"] = <<>>]
    /\ UNCHANGED gpiofs

\* temperature_converter(read_adc_counts(...)) for the next pin of the list
\* comprehension; a raise leaves the handler: 500
HttpReadAdc(outcome) ==
    /\ webreq.pc = "read"
    /\ LET pin == webreq.pins[Len(webreq.adc) + 1]
           adc == Append(webreq.adc, adc_raw_path(pin))
       IN webreq' =
            IF ~outcome.ok
            THEN [webreq EXCEPT !.adc = adc, !.pc = "done", !.status = 500]
            ELSE [webreq EXCEPT
                     !.adc = adc,
                     !.temperatures = Append(@, Reading(temperature_converter(outcome.counts))),
                     !.pc = IF Len(adc) = Len(webreq.pins) THEN "mean" ELSE "read"]
    /\ UNCHANGED <<gpiofs, call, ops>>

\* {"temperature": statistics.mean(...)}: the mean of an empty list raises
\* StatisticsError, which leaves the handler: 500
HttpMean ==
    /\ webreq.pc = "mean"
    /\ webreq' = IF webreq.temperatures = <<>>
                 THEN [webreq EXCEPT !.pc = "done", !.status = 500]
                 ELSE [webreq EXCEPT !.pc = "done", !.status = 200,
                                     !.mean = statistics_mean(webreq.temperatures)]
    /\ UNCHANGED <<gpiofs, call, ops>>

\* state: bool as a path parameter
parse_bool(state) ==
    CASE state \in {"true", "1", "on"} -> [ok |-> TRUE, value |-> TRUE]
      [] state \in {"false", "0", "off"} -> [ok |-> TRUE, value |-> FALSE]
      [] OTHER -> [ok |-> FALSE, value |-> FALSE]

\* set_led: 422 unless led is an OnboardLED and state a bool
HttpLedRequest(led, state) ==
    /\ webreq.pc \in {"idle", "done"}
    /\ LET base == [WebIdle EXCEPT !.route = "setLED", !.name = led, !.state = state]
           valid == led \in OnboardLED /\ parse_bool(state).ok
       IN /\ webreq' = IF valid THEN [base EXCEPT !.pc = "led"]
                       ELSE [base EXCEPT !.pc = "done", !.status = 422]
          /\ call' = [call EXCEPT !["http"] =
                        IF valid
                        THEN GpioCall(board_marking_led(led), parse_bool(state).value)
                        ELSE NoCall]
    /\ ops' = [ops EXCEPT !["http"] = <<>>]
    /\ UNCHANGED gpiofs

HttpLedHardware ==
    /\ webreq.pc = "led"
    /\ configure_gpio_pin("http")
    /\ UNCHANGED webreq

\* set_onboard_led returned: {"commands": [...]}; raised: 500
HttpLedDone ==
    /\ webreq.pc = "led" /\ call["http"].status \in {"returned", "raised"}
    /\ webreq' = IF call["http"].status = "returned"
                 THEN [webreq EXCEPT !.pc = "done", !.status = 200,
                                     !.commands = call["http"].cmds]
                 ELSE [webreq EXCEPT !.pc = "done", !.status = 500]
    /\ call' = [call EXCEPT !["http"] = NoCall]
    /\ UNCHANGED <<gpiofs, ops>>

(***************************************************************************)
(* The lookups a marking of the wire mapping goes through when the         *)
(* interface uses it: the board-marking table of the PCB revision, then    *)
(* the pin table of the sequencer.  d[key] of a dict raises KeyError for a *)
(* key that is not among its keys.                                         *)
(***************************************************************************)
BoardMarkingThermistorPin == {"TMP0", "TMP1", "TMP2", "TMP3", "TMP4", "TMP5", "TMP6"}
ADCPin == {"P9_33", "P9_35", "P9_36", "P9_37", "P9_38", "P9_39", "P9_40"}

\* the keys of BBB_V100_BOARD_MARKINGS_TO_PINS.pwm, .thermistor and .led
board_marking_pwm_keys == {"ONBOARD", "PN1", "PN2", "PN3", "PN4", "PN5"}
board_marking_thermistor_keys == {"TMP0", "TMP1", "TMP2", "TMP3", "TMP4", "TMP5", "TMP6"}
board_marking_led_keys == {"RUN", "WEB", "FAULT"}

\* the keys of _PWM_CHANNEL_LOOKUP, _ANALOG_IN_LOOKUP and _GPIO_LOOKUP
PWM_CHANNEL_LOOKUP_keys == {"P9_31", "P9_29", "P9_22", "P9_14", "P9_16", "P8_19", "P8_13"}
ANALOG_IN_LOOKUP_keysWithoutP9_40 == {"P9_39", "P9_37", "P9_38", "P9_33", "P9_36", "P9_35"}
ANALOG_IN_LOOKUP_keys == {"P9_39", "P9_40", "P9_37", "P9_38", "P9_33", "P9_36", "P9_35"}
GPIO_LOOKUP_keys ==
    {"P8_16", "P8_17", "P8_18", "P8_28", "P9_11", "P9_12", "P9_13", "P9_41", "P9_42"}

\* found: the marking is a key of the board-marking table; pin: what it maps
\* to; resolved: the pin is a key of the sequencer's table; device: the
\* device file or gpio number the sequencer derives from the entry
LookupResult(kind, marking, found, pin, resolved, device) ==
    [kind |-> kind, marking |-> marking, found |-> found, pin |-> pin,
     resolved |-> resolved, device |-> device]
LookupNone == LookupResult("none", "", FALSE, "", FALSE, "")

\* board_marking_lookup.pwm[board_marking], then _PWM_CHANNEL_LOOKUP[pwm_pin]
lookup_pwm(marking) ==
    IF marking \notin board_marking_pwm_keys
    THEN LookupResult("pwm", marking, FALSE, "", FALSE, "")
    ELSE LET pin == board_marking_pwm(marking)
         IN IF pin \notin PWM_CHANNEL_LOOKUP_keys
            THEN LookupResult("pwm", marking, TRUE, pin, FALSE, "")
            ELSE LookupResult("pwm", marking, TRUE, pin, TRUE, device_tree_base_path(pin))

\* board_marking_lookup.thermistor[board_marking], then _ANALOG_IN_LOOKUP[adc_pin]
lookup_thermistor(marking) ==
    IF marking \notin board_marking_thermistor_keys
    THEN LookupResult("thermistor", marking, FALSE, "", FALSE, "")
    ELSE LET pin == board_marking_thermistor(marking)
         IN IF pin \notin ANALOG_IN_LOOKUP_keys
            THEN LookupResult("thermistor", marking, TRUE, pin, FALSE, "")
            ELSE LookupResult("thermistor", marking, TRUE, pin, TRUE, adc_raw_path(pin))

\* board_marking_lookup.led[onboard_led], then _GPIO_LOOKUP[gpio_pin]
lookup_led(led) ==
    IF led \notin board_marking_led_keys
    THEN LookupResult("led", led, FALSE, "", FALSE, "")
    ELSE LET pin == board_marking_led(led)
         IN IF pin \notin GPIO_LOOKUP_keys
            THEN LookupResult("led", led, TRUE, pin, FALSE, "")
            ELSE LookupResult("led", led, TRUE, pin, TRUE, gpio_path(pin))

\* the fan groups and the probe groups of the wire mapping
FanGroups ==
    <<wire_mapping.upper_intake_fans, wire_mapping.lower_intake_fans,
      wire_mapping.upper_exhaust_fans>>
ProbeGroups == <<wire_mapping.intake_thermistor_pins, wire_mapping.exhaust_thermistor_pins>>

\* a fan control of group g is built and called
LookupFan(g, i) ==
    /\ g \in 1 .. Len(FanGroups) /\ i \in 1 .. Len(FanGroups[g])
    /\ lookup' = lookup_pwm(FanGroups[g][i])

\* a probe of group g is read
LookupProbe(g, i) ==
    /\ g \in 1 .. Len(ProbeGroups) /\ i \in 1 .. Len(ProbeGroups[g])
    /\ lookup' = lookup_thermistor(ProbeGroups[g][i])

\* set_onboard_led(led, value)
LookupLed(led) == lookup' = lookup_led(led)

(***************************************************************************)
(* orvcli.run, the coordinator.  Every call it makes inside its try either *)
(* returns or raises; a raise goes to the except clause, and the finally   *)
(* clause runs whichever way the try and the except clause ended.          *)
(***************************************************************************)
\* the control surfaces run can append to controller_apis
Surfaces == {"web", "mqtt"}

\* one call of the coordinator: set_onboard_led(led, value), or
\* non_blocking_run / stop of a surface handle (name is "" for neither)
CoordCall(op, name, value, ok) == [op |-> op, name |-> name, value |-> value, ok |-> ok]

\* enable_web_api, enable_mqtt_api are the options of the command; signalled
\* is the process stop signal; pending is an exception that left the except
\* clause
CoordIdle ==
    [pc |-> "options", enable_web_api |-> FALSE, enable_mqtt_api |-> FALSE,
     hardware_interface |-> FALSE, controller_apis |-> <<>>, idx |-> 0,
     log |-> <<>>, caught |-> FALSE, pending |-> FALSE, signalled |-> FALSE]

\* state is "none", "created" or "running"; jobs are the indicators a blink
\* job was added for; count is next(state_count) of each job, modulo 2
SchedulerNone == [state |-> "none", jobs |-> {}, count |-> [l \in OnboardLED |-> 0]]

\* except Exception: where a raise inside the try continues
run_exceptNoFault(c) == [c EXCEPT !.caught = TRUE, !.pc = "finally", !.idx = 1]
run_except(c) ==
    [c EXCEPT !.caught = TRUE, !.idx = 1,
              !.pc = IF c.hardware_interface THEN "fault_on" ELSE "finally"]

\* an exception raised by the except clause itself: the finally clause still
\* runs, then the exception leaves run
except_raisedSkipsFinally(c) == [c EXCEPT !.pending = TRUE, !.pc = "raised"]
except_raised(c) == [c EXCEPT !.pending = TRUE, !.pc = "finally", !.idx = 1]

\* the termination signal sets the coordinator's stop event
SignalSet ==
    /\ ~coord.signalled
    /\ coord' = [coord EXCEPT !.signalled = TRUE]
    /\ UNCHANGED <<scheduler, surface>>

\* hardware_interface = create_hardware_interface(...): a configuration
\* error raises
RunCreateIgnoresFailure(ok) ==
    /\ coord.pc = "create"
    /\ coord' = [coord EXCEPT !.hardware_interface = ok, !.pc = "fault_off"]
    /\ UNCHANGED <<scheduler, surface>>
RunCreate(ok) ==
    /\ coord.pc = "create"
    /\ coord' = IF ok THEN [coord EXCEPT !.hardware_interface = TRUE, !.pc = "fault_off"]
                ELSE run_except(coord)
    /\ UNCHANGED <<scheduler, surface>>

\* hardware_interface.set_onboard_led(OnboardLED.fault, False)
RunFaultOff(ok) ==
    /\ coord.pc = "fault_off"
    /\ LET c == [coord EXCEPT !.log = Append(@, CoordCall("set_onboard_led", "FAULT", FALSE, ok))]
       IN coord' = IF ok THEN [c EXCEPT !.pc = "add_jobs"] ELSE run_except(c)
    /\ UNCHANGED <<scheduler, surface>>

\* any([web_api, mqtt_api]): a list of the two modules, always true
any_api == TRUE

\* scheduler = BackgroundScheduler(); scheduler.add_job(...) for the run
\* indicator and, under any_api, for the web indicator
RunAddJobs ==
    /\ coord.pc = "add_jobs"
    /\ scheduler' = [scheduler EXCEPT !.state = "created",
                                      !.jobs = IF any_api THEN {"RUN", "WEB"} ELSE {"RUN"}]
    /\ coord' = [coord EXCEPT !.pc = "web_api"]
    /\ UNCHANGED surface

\* if enable_...: controller_apis.append(<the surface's factory>(...))
create_api(c, name, enabled, ok, after) ==
    IF ~enabled THEN [c EXCEPT !.pc = after]
    ELSE IF ok THEN [c EXCEPT !.controller_apis = Append(@, name), !.pc = after]
    ELSE run_except(c)

RunCreateWeb(ok) ==
    /\ coord.pc = "web_api"
    /\ ok \/ coord.enable_web_api
    /\ coord' = create_api(coord, "web", coord.enable_web_api, ok, "mqtt_api")
    /\ surface' = IF coord.enable_web_api /\ ok
                  THEN [surface EXCEPT !["web"] = "created"] ELSE surface
    /\ UNCHANGED scheduler

RunCreateMqtt(ok) ==
    /\ coord.pc = "mqtt_api"
    /\ ok \/ coord.enable_mqtt_api
    /\ coord' = create_api(coord, "mqtt", coord.enable_mqtt_api, ok, "scheduler_start")
    /\ surface' = IF coord.enable_mqtt_api /\ ok
                  THEN [surface EXCEPT !["mqtt"] = "created"] ELSE surface
    /\ UNCHANGED scheduler

\* scheduler.start(), then the for loop over controller_apis
RunSchedulerStart(ok) ==
    /\ coord.pc = "scheduler_start"
    /\ IF ok
       THEN /\ scheduler' = [scheduler EXCEPT !.state = "running"]
            /\ coord' = [coord EXCEPT !.idx = 1,
                                      !.pc = IF coord.controller_apis = <<>>
                                             THEN "wait" ELSE "start"]
       ELSE /\ coord' = run_except(coord)
            /\ UNCHANGED scheduler
    /\ UNCHANGED surface

\* controller_api.non_blocking_run()
RunStart(ok) ==
    /\ coord.pc = "start"
    /\ LET name == coord.controller_apis[coord.idx]
           c == [coord EXCEPT !.log = Append(@, CoordCall("non_blocking_run", name, FALSE, ok))]
       IN /\ coord' = IF ~ok THEN run_except(c)
                      ELSE [c EXCEPT !.idx = @ + 1,
                                     !.pc = IF coord.idx = Len(coord.controller_apis)
                                            THEN "wait" ELSE "start"]
          /\ surface' = IF ok THEN [surface EXCEPT ![name] = "started"] ELSE surface
    /\ UNCHANGED scheduler

\* stop_event.wait() returns once the stop event is set
RunWait ==
    /\ coord.pc = "wait"
    /\ coord.signalled
    /\ coord' = [coord EXCEPT !.idx = 1, !.pc = "finally"]
    /\ UNCHANGED <<scheduler, surface>>

\* except: hardware_interface.set_onboard_led(OnboardLED.fault, True)
RunFaultOn(ok) ==
    /\ coord.pc = "fault_on"
    /\ LET c == [coord EXCEPT !.log = Append(@, CoordCall("set_onboard_led", "FAULT", TRUE, ok))]
       IN coord' = IF ok THEN [c EXCEPT !.pc = "finally", !.idx = 1] ELSE except_raised(c)
    /\ UNCHANGED <<scheduler, surface>>

\* stop() of a handle: on a started surface it returns when the surface has
\* terminated; the MQTT handle's thread.join() raises on a thread that was
\* never started
stop_returns(name, ok) ==
    CASE surface[name] = "started" -> ok
      [] name = "mqtt" -> ~ok
      [] OTHER -> TRUE

\* finally: for controller_api in controller_apis: controller_api.stop()
RunStop(ok) ==
    /\ coord.pc = "finally"
    /\ coord.idx <= Len(coord.controller_apis)
    /\ LET name == coord.controller_apis[coord.idx]
           c == [coord EXCEPT !.log = Append(@, CoordCall("stop", name, FALSE, ok))]
       IN /\ stop_returns(name, ok)
          /\ coord' = IF ok THEN [c EXCEPT !.idx = @ + 1] ELSE [c EXCEPT !.pc = "raised"]
          /\ surface' = IF ok /\ surface[name] = "started"
                        THEN [surface EXCEPT ![name] = "stopped"] ELSE surface
    /\ UNCHANGED scheduler

\* LOGGER.info("Stopping ORV. Bye!"): run returns, or the exception that left
\* the except clause leaves run
RunLeave ==
    /\ coord.pc = "finally"
    /\ coord.idx > Len(coord.controller_apis)
    /\ coord' = [coord EXCEPT !.pc = IF coord.pending THEN "raised" ELSE "returned"]
    /\ UNCHANGED <<scheduler, surface>>

\* a blink job fires on the scheduler's thread:
\* toggling_job(lambda v: hardware_interface.set_onboard_led(led, v), count)
SchedulerJob(led) ==
    /\ scheduler.state = "running"
    /\ led \in scheduler.jobs
    /\ scheduler' = [scheduler EXCEPT !.count[led] = (@ + 1) % 2]
    /\ UNCHANGED <<coord, surface>>

\* the same job with the call it makes followed into the sequencer, on the
\* scheduler's worker thread: bool_callable(bool(next(state_count) % 2 == 0))
toggling_job(led) ==
    /\ scheduler.state = "running"
    /\ led \in scheduler.jobs
    /\ call["seq"].pc \in {"idle", "done"}
    /\ call' = [call EXCEPT !["seq"] =
                  GpioCall(board_marking_led(led), scheduler.count[led] = 0)]
    /\ ops' = [ops EXCEPT !["seq"] = <<>>]
    /\ scheduler' = [scheduler EXCEPT !.count[led] = (@ + 1) % 2]
    /\ UNCHANGED <<gpiofs, coord, surface>>

(***************************************************************************)
(* Initial states.                                                         *)
(***************************************************************************)
LedGpioNums == {gpio_num(board_marking_led(l)) : l \in OnboardLED}

InitThreads ==
    /\ call = [t \in Threads |-> NoCall]
    /\ ops = [t \in Threads |-> <<>>]
    /\ pubs = [t \in Threads |-> <<>>]
    /\ net = NetIdle
    /\ netloop = "running"
    /\ http = HttpIdle
    /\ thread = "initial"
    /\ thread_stop_event = FALSE
    /\ tel = TelIdle
    /\ stopper = StopperIdle
    /\ conn = ConnIdle
    /\ broker = BrokerInit
    /\ webreq = WebIdle
    /\ coord = CoordIdle
    /\ surface = [s \in Surfaces |-> "none"]
    /\ pwmfs = [path \in PwmFiles |-> "0"]
    /\ lookup = LookupNone

InitIdle ==
    /\ InitThreads
    /\ scheduler = SchedulerNone

(***************************************************************************)
(* SpecSeq: one direct call of the sequencer, its arguments drawn from     *)
(* bounded sets, on a host where any of the LED gpio nodes may pre-exist.  *)
(***************************************************************************)
SeqPeriods == {1, 3, FAN_PERIOD_NS, 40000}
SeqDuties == {Fin(n) : n \in (0 - 1) .. (DutyDen + 1)} \cup {NonFinite}

InitSeq ==
    /\ InitIdle
    /\ wire_mapping = WireMapping(MaxChannels)
    /\ gpiofs \in SUBSET LedGpioNums

SeqCallPwm ==
    /\ call["seq"].pc = "idle"
    /\ \E pin \in PWMPin, p \in SeqPeriods, d \in SeqDuties :
          call' = [call EXCEPT !["seq"] = PwmCall(pin, p, d)]
    /\ UNCHANGED <<gpiofs, ops>>

SeqCallGpio ==
    /\ call["seq"].pc = "idle"
    /\ \E pin \in GPIOPin, v \in BOOLEAN :
          call' = [call EXCEPT !["seq"] = GpioCall(pin, v)]
    /\ UNCHANGED <<gpiofs, ops>>

NextSeq ==
    /\ \/ SeqCallPwm
       \/ SeqCallGpio
       \/ configure_pwm_pin("seq")
       \/ configure_gpio_pin("seq")
    /\ UNCHANGED <<cfgvars, fanvars, lifevars, connvars, webvars, runvars, devvars>>

SpecSeq == InitSeq /\ [][NextSeq]_vars

(***************************************************************************)
(* The MQTT and HTTP surfaces handling fan-power commands, one command at  *)
(* a time each, for commands drawn from the given sets.                    *)
(***************************************************************************)
MqttStep(topics, payloads) ==
    \/ \E topic \in topics, payload \in payloads : MqttReceive(topic, payload)
    \/ MqttHardware
    \/ MqttControlReturned
    \/ MqttControlRaised
    \/ \E ok \in BOOLEAN : MqttPublishState(ok)

MqttNext(topics, payloads) ==
    /\ MqttStep(topics, payloads)
    /\ UNCHANGED <<lifevars, connvars, webvars, runvars, devvars>>

HttpStep(levels, sides, powers) ==
    \/ \E level \in levels, side \in sides, power \in powers :
          HttpFanRequest(level, side, power)
    \/ HttpHardware
    \/ HttpControlReturned
    \/ HttpControlRaised

HttpNext(levels, sides, powers) ==
    /\ HttpStep(levels, sides, powers)
    /\ UNCHANGED <<lifevars, connvars, webvars, runvars, devvars>>

RawLocations == RackLocationValues \cup {"attic"}

FanSetTopics == {<<DEVICE_ID, "fan", l, "set">> : l \in RawLocations}

Topics ==
    FanSetTopics
    \cup {<<DEVICE_ID, "fan", "upper_intake", "state">>,
          <<DEVICE_ID, "temperature", "upper_intake", "set">>,
          <<DEVICE_ID, "fan", "set">>,
          <<DEVICE_ID, "fan", "upper_intake", "set", "now">>}

Payloads ==
    {DecimalPayload(n) : n \in (0 - 1) .. (DutyDen + 1)}
    \cup {WordPayload, TextPayload, BinaryPayload}

HttpLevels == RackLevel \cup {"middle"}
HttpSides == RackSide \cup {"top"}
HttpPowers == {Fin(n) : n \in (0 - 1) .. (DutyDen + 1)} \cup {NonFinite}

InitFan ==
    /\ InitIdle
    /\ wire_mapping \in WireMappings
    /\ gpiofs = {}

\* SpecMqtt: any message on the MQTT surface
SpecMqtt == InitFan /\ [][MqttNext(Topics, Payloads)]_vars

\* SpecHttp: any fan request on the HTTP surface
SpecHttp == InitFan /\ [][HttpNext(HttpLevels, HttpSides, HttpPowers)]_vars

\* SpecFan: both surfaces at once, for well-formed commands of in-range power
\* addressed to any location
FanPowerNums == {1, DutyDen}
FanPayloads == {DecimalPayload(n) : n \in FanPowerNums}
FanPowers == {Fin(n) : n \in FanPowerNums}

SpecFan ==
    InitFan /\ [][\/ MqttNext(FanSetTopics, FanPayloads)
                  \/ HttpNext(RackLevel, RackSide, FanPowers)]_vars

(***************************************************************************)
(* SpecWeb: the HTTP surface handling one request at a time, of any of its *)
(* three routes, with any path parameters and any outcome of each device   *)
(* access; a run serves fan requests or temperature and indicator          *)
(* requests.                                                               *)
(***************************************************************************)
AdcOutcomes == {AdcCounts(c) : c \in {1000, 2000, 4000}} \cup {AdcRaised}
LedNames == OnboardLED \cup {"POWER"}
LedStates == {"true", "0", "maybe"}

\* the example mapping with either thermistor group cut to 0 .. MaxProbes probes
WebMappings ==
    {[WireMapping(n) EXCEPT !.intake_thermistor_pins = SubSeq(<<"TMP0", "TMP1", "TMP2", "TMP3">>, 1, i),
                            !.exhaust_thermistor_pins = SubSeq(<<"TMP4", "TMP5">>, 1, e)] :
        n \in {0, MaxChannels}, i \in {0, MaxProbes}, e \in {0, 1}}

InitWeb ==
    /\ InitIdle
    /\ wire_mapping \in WebMappings
    /\ gpiofs \in SUBSET {gpio_num(board_marking_led("RUN"))}

WebNext ==
    /\ \/ \E side \in HttpSides : HttpTemperatureRequest(side)
       \/ \E outcome \in AdcOutcomes : HttpReadAdc(outcome)
       \/ HttpMean
       \/ \E led \in LedNames, state \in LedStates : HttpLedRequest(led, state)
       \/ HttpLedHardware
       \/ HttpLedDone
    /\ UNCHANGED <<cfgvars, fanvars, lifevars, connvars, runvars, devvars>>

SpecWeb ==
    InitWeb /\ [][\/ webreq.pc = "idle" /\ HttpNext(HttpLevels, HttpSides, HttpPowers)
                  \/ http.pc = "idle" /\ WebNext]_vars

(***************************************************************************)
(* SpecRace: both surfaces setting the power of the same location, their   *)
(* hardware steps interleaved in any order, with the content of the PWM    *)
(* attribute files tracked from a fresh PWM chip (every file "0").         *)
(***************************************************************************)
RaceLocation == "upper_intake"

InitRace ==
    /\ InitIdle
    /\ wire_mapping = WireMapping(MaxChannels)
    /\ gpiofs = {}

NextRace ==
    /\ \/ MqttStep({<<DEVICE_ID, "fan", RaceLocation, "set">>},
                   FanPayloads)
       \/ HttpStep({"upper"}, {"intake"}, FanPowers)
    /\ pwmfs' = pwmfs_written
    /\ UNCHANGED <<lifevars, connvars, webvars, runvars, lookup>>

SpecRace == InitRace /\ [][NextRace]_vars

(***************************************************************************)
(* SpecBlink: the blink jobs of a running scheduler and the indicator      *)
(* requests of the HTTP surface, their sequencer steps interleaved in any  *)
(* order, on a host where no gpio node exists yet.                         *)
(***************************************************************************)
InitBlink ==
    /\ InitThreads
    /\ wire_mapping = WireMapping(MaxChannels)
    /\ gpiofs = {}
    /\ scheduler = [SchedulerNone EXCEPT !.state = "running", !.jobs = {"RUN", "WEB"}]

NextBlink ==
    \/ /\ \E led \in OnboardLED : toggling_job(led)
       /\ UNCHANGED <<cfgvars, fanvars, lifevars, connvars, webvars, devvars>>
    \/ /\ configure_gpio_pin("seq")
       /\ UNCHANGED <<cfgvars, fanvars, lifevars, connvars, webvars, runvars, devvars>>
    \/ /\ \/ \E led \in OnboardLED, state \in LedStates : HttpLedRequest(led, state)
          \/ HttpLedHardware
          \/ HttpLedDone
       /\ UNCHANGED <<cfgvars, fanvars, lifevars, connvars, runvars, devvars>>

SpecBlink == InitBlink /\ [][NextBlink]_vars

(***************************************************************************)
(* SpecPins: a hardware interface built for revision v1.0.0 from any wire  *)
(* mapping with one fan group and one probe group of up to MaxGroup        *)
(* markings of their enumeration, and any use of a fan control, a probe or *)
(* an indicator.                                                           *)
(***************************************************************************)
MaxGroup == 1

SeqsUpTo(S, n) == UNION {[1 .. k -> S] : k \in 0 .. n}

InitPins ==
    /\ InitIdle
    /\ gpiofs = {}
    /\ \E g \in 1 .. 3, h \in 1 .. 2,
          fans \in SeqsUpTo(BoardMarkingActiveLowPWM, MaxGroup),
          probes \in SeqsUpTo(BoardMarkingThermistorPin, MaxGroup) :
          wire_mapping = [upper_intake_fans |-> IF g = 1 THEN fans ELSE <<>>,
                          lower_intake_fans |-> IF g = 2 THEN fans ELSE <<>>,
                          upper_exhaust_fans |-> IF g = 3 THEN fans ELSE <<>>,
                          intake_thermistor_pins |-> IF h = 1 THEN probes ELSE <<>>,
                          exhaust_thermistor_pins |-> IF h = 2 THEN probes ELSE <<>>]

NextPins ==
    /\ \/ \E g \in 1 .. 3, i \in 1 .. MaxGroup : LookupFan(g, i)
       \/ \E g \in 1 .. 2, i \in 1 .. MaxGroup : LookupProbe(g, i)
       \/ \E led \in OnboardLED : LookupLed(led)
    /\ UNCHANGED <<cfgvars, seqvars, fanvars, lifevars, connvars, webvars, runvars, pwmfs>>

SpecPins == InitPins /\ [][NextPins]_vars

(***************************************************************************)
(* SpecRun: one run of the coordinator, for every choice of the enabled    *)
(* surfaces, every outcome of each call it makes, the termination signal   *)
(* arriving at any time, and the blink jobs firing at any time.            *)
(***************************************************************************)
InitRun ==
    /\ InitIdle
    /\ wire_mapping = WireMapping(MaxChannels)
    /\ gpiofs = {}

\* the command is invoked with its options
RunOptions ==
    /\ coord.pc = "options"
    /\ \E w, q \in BOOLEAN :
          coord' = [coord EXCEPT !.enable_web_api = w, !.enable_mqtt_api = q,
                                 !.pc = "create"]
    /\ UNCHANGED <<scheduler, surface>>

NextRun ==
    /\ \/ RunOptions
       \/ SignalSet
       \/ \E ok \in BOOLEAN : RunCreate(ok)
       \/ \E ok \in BOOLEAN : RunFaultOff(ok)
       \/ RunAddJobs
       \/ \E ok \in BOOLEAN : RunCreateWeb(ok)
       \/ \E ok \in BOOLEAN : RunCreateMqtt(ok)
       \/ \E ok \in BOOLEAN : RunSchedulerStart(ok)
       \/ \E ok \in BOOLEAN : RunStart(ok)
       \/ RunWait
       \/ \E ok \in BOOLEAN : RunFaultOn(ok)
       \/ \E ok \in BOOLEAN : RunStop(ok)
       \/ RunLeave
       \/ \E led \in OnboardLED : SchedulerJob(led)
    /\ UNCHANGED <<cfgvars, seqvars, fanvars, lifevars, connvars, webvars, devvars>>

SpecRun == InitRun /\ [][NextRun]_vars

(***************************************************************************)
(* SpecTel: the life of one MQTT surface handle: start, telemetry passes   *)
(* over the sensor locations with any outcome of each read and publish,    *)
(* and stop() called at any time, any number of times.                     *)
(***************************************************************************)
ReadValues == {0, 20, 22}
ReadOutcomes == {Reading(v) : v \in ReadValues} \cup {NoReading, ReadRaised}

\* the example mapping (intake TMP0, TMP1; exhaust TMP4, TMP5) with the intake
\* group cut or extended to i probes and the exhaust group cut to e probes
IntakeOrder == <<"TMP0", "TMP1", "TMP2", "TMP3">>
ExhaustOrder == <<"TMP4", "TMP5">>

InitTel ==
    /\ InitIdle
    /\ gpiofs = {}
    /\ \E i \in 0 .. MaxProbes, e \in 0 .. Len(ExhaustOrder) :
          wire_mapping = [WireMapping(MaxChannels) EXCEPT
                             !.intake_thermistor_pins = SubSeq(IntakeOrder, 1, i),
                             !.exhaust_thermistor_pins = SubSeq(ExhaustOrder, 1, e)]

NextTel ==
    /\ \/ ThreadStart
       \/ TelWillSet
       \/ \E ok \in BOOLEAN : TelConnect(ok)
       \/ TelLoopStart
       \/ TelTest
       \/ \E outcome \in ReadOutcomes : TelRead(outcome)
       \/ \E ok \in BOOLEAN : TelPublish(ok)
       \/ TelLogPublished
       \/ TelSleep
       \/ \E ok \in BOOLEAN : TelOffline(ok)
       \/ TelLoopStop
       \/ TelDisconnect
       \/ stop_set
       \/ stop_join
    /\ UNCHANGED <<cfgvars, seqvars, fanvars, webvars, runvars, devvars>>

SpecTel == InitTel /\ [][NextTel]_vars

\* SpecTelFair: the same, with the started thread scheduled: every statement
\* of thread_target that can run eventually does (each call it makes returns
\* or raises)
thread_target_step ==
    /\ \/ TelWillSet
       \/ \E ok \in BOOLEAN : TelConnect(ok)
       \/ TelLoopStart
       \/ TelTest
       \/ \E outcome \in ReadOutcomes : TelRead(outcome)
       \/ \E ok \in BOOLEAN : TelPublish(ok)
       \/ TelLogPublished
       \/ TelSleep
       \/ \E ok \in BOOLEAN : TelOffline(ok)
       \/ TelLoopStop
       \/ TelDisconnect
    /\ UNCHANGED <<cfgvars, seqvars, fanvars, webvars, runvars, devvars>>

SpecTelFair == SpecTel /\ WF_vars(thread_target_step)

(***************************************************************************)
(* SpecConn: the same handle with its network thread, which calls          *)
(* on_connect for every CONNACK while the loop runs; the intake location   *)
(* has at most one probe.                                                  *)
(***************************************************************************)
InitConn ==
    /\ InitIdle
    /\ gpiofs = {}
    /\ \E i \in 0 .. 1 :
          wire_mapping = [WireMapping(MaxChannels) EXCEPT
                             !.intake_thermistor_pins = SubSeq(IntakeOrder, 1, i),
                             !.exhaust_thermistor_pins = <<>>]

ConnNext ==
    /\ \/ NetConnack
       \/ \E ok \in BOOLEAN : OnConnectStep(ok)
    /\ UNCHANGED <<cfgvars, seqvars, fanvars, webvars, runvars, devvars, thread, thread_stop_event,
                   tel, stopper>>

SpecConn == InitConn /\ [][NextTel \/ ConnNext]_vars

(***************************************************************************)
(* What the claims speak of.                                               *)
(***************************************************************************)
IsWrite(op) == op.kind = "echo" /\ op.ok
\* the writes thread t has performed, as <<path, value>>, in order
Writes(t) ==
    LET w == SelectSeq(ops[t], IsWrite)
    IN [i \in 1 .. Len(w) |-> <<w[i].target, w[i].value>>]
\* the echo_value results that correspond to a sequence of writes
Summaries(ws) == [i \in 1 .. Len(ws) |-> "echo " \o ws[i][1] \o " > " \o ws[i][2]]
IsPrefix(a, b) == Len(a) <= Len(b) /\ a = SubSeq(b, 1, Len(a))
PinModeRuns(t) == {i \in 1 .. Len(ops[t]) : ops[t][i].kind = "config-pin"}
WriteAttempts(t) == {i \in 1 .. Len(ops[t]) : ops[t][i].kind = "echo"}

PwmAttr(pin, attr) ==
    "/dev/bone/pwm/" \o ToString(PWM_CHANNEL_LOOKUP(pin).pwm_id) \o "/"
        \o PWM_CHANNEL_LOOKUP(pin).channel \o "/" \o attr

\* the three writes of one channel for the duty fraction num / DutyDen
ChannelWrites(pin, period_ns, num) ==
    << <<PwmAttr(pin, "period"), ToString(period_ns)>>,
       <<PwmAttr(pin, "duty_cycle"), ToString(Floor(period_ns * num, DutyDen))>>,
       <<PwmAttr(pin, "enable"), "1">> >>

\* the writes of a list of channels, channel after channel
ChannelsWrites(pins, period_ns, num) ==
    [k \in 1 .. 3 * Len(pins) |->
        ChannelWrites(pins[((k - 1) \div 3) + 1], period_ns, num)[((k - 1) % 3) + 1]]

InUnitRange(power) == power.fin /\ 0 <= power.num /\ power.num <= DutyDen

(***************************************************************************)
(* C1.  For every PWM pin, every period > 0 and every duty fraction in     *)
(* [0,1], configure_pwm_pin performs, after a successful pin-mode call,    *)
(* its writes in the order period, duty_cycle, enable with the values      *)
(* period, floor(period * fraction) and 1 and nothing else; a call that    *)
(* returns has performed exactly these three writes and returns exactly    *)
(* their three entries in that order.  (A call in which config-pin or a    *)
(* write fails raises and returns nothing.)                                *)
(***************************************************************************)
C1_Case ==
    /\ call["seq"].fn = "configure_pwm_pin"
    /\ call["seq"].period_ns > 0
    /\ InUnitRange(call["seq"].duty_pct)

C1_ConfigurePwmThreeWrites ==
    C1_Case =>
        LET f == call["seq"]
            expected == ChannelWrites(f.pin, f.period_ns, f.duty_pct.num)
        IN /\ IsPrefix(Writes("seq"), expected)
           /\ WriteAttempts("seq") # {} =>
                 ops["seq"][1] = ConfigPinOp(f.pin, "pwm", TRUE)
           /\ Cardinality(PinModeRuns("seq")) <= 1
           /\ f.status = "returned" =>
                 /\ Writes("seq") = expected
                 /\ f.cmds = Summaries(expected)
           /\ f.status # "returned" => IsPrefix(f.cmds, Summaries(Writes("seq")))

\* a returned call whose duty is not a whole multiple: floor(3 * 1/2) = 1
C1_Witness ==
    /\ C1_Case
    /\ call["seq"].status = "returned"
    /\ call["seq"].period_ns = 3
    /\ call["seq"].duty_pct.num = 1
    /\ Len(call["seq"].cmds) = 3

(***************************************************************************)
(* C9.  configure_gpio_pin performs and returns exactly 2 writes           *)
(* (direction, value) when the gpio node exists at the time of its check   *)
(* and exactly 3 (export, direction, value) when it does not; it never     *)
(* writes the export file when the node exists.                            *)
(***************************************************************************)
GpioWrites(pin, value, existed) ==
    (IF existed THEN <<>>
     ELSE << <<"/sys/class/gpio/export",
               ToString((GPIO_LOOKUP(pin).gpio_bank * 32) + GPIO_LOOKUP(pin).gpio_index)>> >>)
    \o << <<"/sys/class/gpio/gpio"
               \o ToString((GPIO_LOOKUP(pin).gpio_bank * 32) + GPIO_LOOKUP(pin).gpio_index)
               \o "/direction", "out">>,
          <<"/sys/class/gpio/gpio"
               \o ToString((GPIO_LOOKUP(pin).gpio_bank * 32) + GPIO_LOOKUP(pin).gpio_index)
               \o "/value", IF value THEN "1" ELSE "0">> >>

C9_Checked ==
    /\ call["seq"].fn = "configure_gpio_pin"
    /\ call["seq"].pc \notin {"config-pin", "exists"}
    /\ ops["seq"][1].ok

C9_ConfigureGpioTwoOrThreeWrites ==
    C9_Checked =>
        LET f == call["seq"]
            expected == GpioWrites(f.pin, f.value, f.node_existed)
        IN /\ Len(expected) = (IF f.node_existed THEN 2 ELSE 3)
           /\ IsPrefix(Writes("seq"), expected)
           /\ f.status = "returned" =>
                 /\ Writes("seq") = expected
                 /\ f.cmds = Summaries(expected)
           /\ f.node_existed =>
                 \A i \in WriteAttempts("seq") : ops["seq"][i].target # GPIO_EXPORT

\* the run LED (gpio31) already exported: a returned call with two writes
C9_Witness ==
    /\ C9_Checked
    /\ call["seq"].status = "returned"
    /\ call["seq"].node_existed
    /\ call["seq"].pin = "P9_13"
    /\ Len(call["seq"].cmds) = 2

(***************************************************************************)
(* Locations as the claims name them.                                      *)
(***************************************************************************)
FanSetTopic(topic) == Len(topic) = 4 /\ topic[2] = "fan" /\ topic[4] = "set"

\* the locations the wire mapping has a fan group for
FanGroupNames == {"upper_intake", "lower_intake", "upper_exhaust"}

\* the markings the wire mapping binds to the location of that name
LocationFans(name) ==
    CASE name = "upper_intake" -> wire_mapping.upper_intake_fans
      [] name = "lower_intake" -> wire_mapping.lower_intake_fans
      [] name = "upper_exhaust" -> wire_mapping.upper_exhaust_fans
      [] OTHER -> <<>>

\* its channels, in wire-map order
LocationPins(name) ==
    [i \in 1 .. Len(LocationFans(name)) |-> board_marking_pwm(LocationFans(name)[i])]

ExpectedInvocations(name, power) ==
    [i \in 1 .. Len(LocationPins(name)) |->
        [pin |-> LocationPins(name)[i], power |-> power]]

HttpLocation == http.level \o "_" \o http.side

(***************************************************************************)
(* C2.  A message on {id}/fan/{location}/set whose location has fan        *)
(* controls and whose payload is a decimal p makes on_message invoke the   *)
(* fan controls of that location in order, each at most once and with p;   *)
(* it publishes at most once, retained, to {id}/fan/{location}/state with  *)
(* payload {"power": p}, and only after every control was invoked and has  *)
(* returned; a handling that ends without a caught error has invoked each  *)
(* control exactly once and published exactly once.                        *)
(***************************************************************************)
C2_Case ==
    /\ net.pc # "idle"
    /\ FanSetTopic(net.topic)
    /\ LocationFans(net.topic[3]) # <<>>
    /\ net.payload.form = "decimal"

C3_Case == net.pc # "idle" /\ ~FanSetTopic(net.topic)

C3_MalformedTopicIgnored ==
    C3_Case =>
        /\ net.pc = "done"
        /\ net.outcome = "ignored"
        /\ net.invoked = <<>>
        /\ call["net"].status = "none"
        /\ ops["net"] = <<>>
        /\ pubs["net"] = <<>>
        /\ netloop = "running"

\* four segments, but the fourth is "state"
C3_Witness ==
    /\ C3_Case
    /\ Len(net.topic) = 4
    /\ net.topic[2] = "fan"
    /\ net.topic[4] = "state"
    /\ net.pc = "done"

(***************************************************************************)
(* C4.  A fan-set message whose payload is not a parseable decimal, or     *)
(* whose location is unknown or has no fan controls, is dropped:           *)
(* on_message returns normally to the network loop having invoked no fan   *)
(* control and published nothing, and the loop can deliver the next        *)
(* message.                                                                *)
(***************************************************************************)
C4_Case ==
    /\ net.pc # "idle"
    /\ FanSetTopic(net.topic)
    /\ \/ net.payload.form \in {"text", "binary"}
       \/ LocationFans(net.topic[3]) = <<>>

C5_NetCase ==
    /\ net.pc # "idle"
    /\ FanSetTopic(net.topic)
    /\ LocationFans(net.topic[3]) = <<>>

C5_HttpCase ==
    /\ http.pc # "idle"
    /\ http.level \in {"lower", "upper"} /\ http.side \in {"intake", "exhaust"}
    /\ InUnitRange(http.power)
    /\ LocationFans(HttpLocation) = <<>>

C5_UnknownLocationNoWrites ==
    /\ C5_NetCase =>
          /\ net.pc = "done"
          /\ net.outcome \in {"error", "no-controls"}
          /\ net.invoked = <<>>
          /\ ops["net"] = <<>>
          /\ pubs["net"] = <<>>
    /\ C5_HttpCase =>
          /\ http.pc = "done"
          /\ http.invoked = <<>>
          /\ ops["http"] = <<>>
          /\ http.commands = <<>>
          /\ HttpLocation \notin FanGroupNames => http.status >= 400

\* lower/exhaust over HTTP and an unknown name over MQTT, both refused
C5_Witness ==
    /\ C5_NetCase
    /\ net.topic[3] = "attic"
    /\ C5_HttpCase
    /\ HttpLocation = "lower_exhaust"
    /\ http.status >= 400

(***************************************************************************)
(* C10.  Setting the power of a location bound to N channels writes        *)
(* period, duty, enable channel after channel in wire-map order, and a set *)
(* that completes has performed exactly these 3N writes and holds one      *)
(* operations log of length 3N, the concatenation of the channels' logs.   *)
(***************************************************************************)
C10_NetCase ==
    /\ net.pc # "idle"
    /\ FanSetTopic(net.topic)
    /\ net.payload.form = "decimal" /\ InUnitRange(Fin(net.payload.num))

C10_HttpCase ==
    /\ http.pc # "idle"
    /\ http.level \in {"lower", "upper"} /\ http.side \in {"intake", "exhaust"}
    /\ InUnitRange(http.power)

C10_SetFanPowerWrites3N ==
    /\ C10_NetCase =>
          LET expected == ChannelsWrites(LocationPins(net.topic[3]), 1000,
                                         net.payload.num)
          IN /\ IsPrefix(Writes("net"), expected)
             /\ (net.pc = "publish" \/ pubs["net"] # <<>>) =>
                   /\ Writes("net") = expected
                   /\ net.commands = Summaries(expected)
                   /\ Len(net.commands) = 3 * Len(LocationFans(net.topic[3]))
    /\ C10_HttpCase =>
          LET expected == ChannelsWrites(LocationPins(HttpLocation), 1000,
                                         http.power.num)
          IN /\ IsPrefix(Writes("http"), expected)
             /\ http.status = 200 =>
                   /\ Writes("http") = expected
                   /\ http.commands = Summaries(expected)
                   /\ Len(http.commands) = 3 * Len(LocationFans(HttpLocation))

\* power 1.0 to two channels on each surface: six writes, a log of six
C10_Witness ==
    /\ C10_HttpCase
    /\ http.status = 200
    /\ http.power.num = DutyDen
    /\ Len(LocationFans(HttpLocation)) = 2
    /\ Len(http.commands) = 6
    /\ C10_NetCase
    /\ net.pc = "publish"
    /\ Len(net.commands) = 6

(***************************************************************************)
(* Telemetry as the claims state it.                                       *)
(***************************************************************************)
\* the reads that succeeded: those that returned a temperature
SuccessfulReads(reads) == SelectSeq(reads, LAMBDA x : x.kind = "value")

\* the mean of the successful reads as a fraction, or "unavailable"
MeanOfSuccessful(reads) ==
    IF SuccessfulReads(reads) = <<>>
    THEN [kind |-> "unavailable", num |-> 0, den |-> 1]
    ELSE [kind |-> "float", num |-> fsum(SuccessfulReads(reads)),
          den |-> Len(SuccessfulReads(reads))]

SamePayload(a, b) == a.kind = b.kind /\ a.num * b.den = b.num * a.den

LastPublished == tel.passlog[Len(tel.passlog)]

PublishedLocations == {tel.passlog[j].topic : j \in 1 .. Len(tel.passlog)}

(***************************************************************************)
(* C6.  Whenever the telemetry loop has published for a sensor location,   *)
(* the payload sent to {id}/temperature/{location} is the arithmetic mean  *)
(* of the probe reads of that location that returned a temperature (reads  *)
(* that returned none are skipped), and the literal "unavailable" when no  *)
(* read returned one.  The code does not satisfy this.                     *)
(***************************************************************************)
C6_PublishesMeanOfSuccessfulReads ==
    tel.pc = "published" =>
        /\ LastPublished.topic =
              DEVICE_ID \o "/temperature/" \o temperature_readers[tel.loc].location
        /\ SamePayload(LastPublished.payload, MeanOfSuccessful(tel.reads))

(***************************************************************************)
(* C7.  When a telemetry pass has ended, every sensor location other than  *)
(* the one at which a read or publish failed has had its telemetry         *)
(* published in that pass.  The code does not satisfy this.                *)
(***************************************************************************)
C7_FailureSparesOtherLocations ==
    tel.pc = "sleep" =>
        \A i \in 1 .. Len(temperature_readers) :
            \/ tel.failure # "none" /\ i = tel.loc
            \/ temperature_topic(temperature_readers[i].location) \in PublishedLocations

(***************************************************************************)
(* C8.  For a surface that was started before stop() was called, stop()    *)
(* returns only when the surface thread has exited and never raises; and   *)
(* no step of a stop() call made after an earlier stop() returned changes  *)
(* the thread, the stop event or the thread's progress, or raises.         *)
(***************************************************************************)
C8_StopReturnsAfterThreadExit ==
    /\ [](stopper.pc = "returned" => thread = "exited")
    /\ [](stopper.started => stopper.pc # "raised")
    /\ [][(stopper' # stopper /\ stopper'.later) =>
             /\ UNCHANGED <<thread, thread_stop_event, tel>>
             /\ stopper'.pc \in {"join", "returned"}]_vars

\* a second stop() has returned, after the first waited for the shutdown
C8_Witness ==
    /\ stopper.pc = "returned"
    /\ stopper.started
    /\ stopper.later
    /\ thread = "exited"
    /\ tel.shutdown = <<"offline", "loop_stop", "disconnect">>

ClientError == 400 .. 499

(***************************************************************************)
(* C11.  Reading the temperatures of a side that has no mapped probe       *)
(* performs no ADC read and returns the empty list without raising: the    *)
(* handler reaches the mean of its result with nothing read.               *)
(***************************************************************************)
C11_Case ==
    /\ webreq.route = "temperature"
    /\ webreq.name \in RackSide
    /\ select_read_temperatures(webreq.name) = <<>>

C11_NoProbesReadsNothing ==
    C11_Case =>
        /\ webreq.pc \in {"mean", "done"}
        /\ webreq.pins = <<>>
        /\ webreq.adc = <<>>
        /\ webreq.temperatures = <<>>

\* read_all_exhaust_temperatures() has returned [] on a mapping without
\* exhaust probes
C11_Witness ==
    /\ C11_Case
    /\ webreq.name = "exhaust"
    /\ webreq.pc = "mean"

(***************************************************************************)
(* C12.  A fan request whose power is not within [0, 1] is answered with a *)
(* client error and causes no fan control invocation, no pin-mode run and  *)
(* no device write.                                                        *)
(***************************************************************************)
C12_Case == http.pc # "idle" /\ ~InUnitRange(http.power)

C12_OutOfRangePowerRejected ==
    C12_Case =>
        /\ http.pc = "done"
        /\ http.status \in ClientError
        /\ http.invoked = <<>>
        /\ call["http"].status = "none"
        /\ ops["http"] = <<>>

\* upper/intake with a power just above 1
C12_Witness ==
    /\ C12_Case
    /\ http.level = "upper" /\ http.side = "intake"
    /\ http.power.fin /\ http.power.num = DutyDen + 1
    /\ http.status = 422

(***************************************************************************)
(* C13.  A fan request for a level/side that names no fan group, and an    *)
(* indicator request for a name that is no indicator, is answered with a   *)
(* client error.  The code does not satisfy this.                          *)
(***************************************************************************)
C13_UnmappedIsClientError ==
    /\ (/\ http.pc = "done"
        /\ \/ http.level \notin RackLevel
           \/ http.side \notin RackSide
           \/ HttpLocation \notin FanGroupNames) => http.status \in ClientError
    /\ (/\ webreq.pc = "done"
        /\ webreq.route = "setLED"
        /\ webreq.name \notin OnboardLED) => webreq.status \in ClientError

(***************************************************************************)
(* C14.  A temperature request for a side whose probe list is empty is     *)
(* answered with a client error.  The code does not satisfy this.          *)
(***************************************************************************)
C14_EmptySideIsClientError ==
    (/\ webreq.pc = "done"
     /\ webreq.route = "temperature"
     /\ webreq.name \in RackSide
     /\ select_read_temperatures(webreq.name) = <<>>) => webreq.status \in ClientError

(***************************************************************************)
(* C18.  When the pin-mode utility fails in configure_pwm_pin the call     *)
(* raises, and it attempts no write of period, duty_cycle or enable and    *)
(* returns no entry.                                                       *)
(***************************************************************************)
C18_Case ==
    /\ call["seq"].fn = "configure_pwm_pin"
    /\ ops["seq"] # <<>>
    /\ ops["seq"][1].kind = "config-pin"
    /\ ~ops["seq"][1].ok

C18_PwmPinModeFailureWritesNothing ==
    C18_Case =>
        /\ call["seq"].status = "raised"
        /\ Len(ops["seq"]) = 1
        /\ WriteAttempts("seq") = {}
        /\ call["seq"].cmds = <<>>

C18_Witness ==
    /\ C18_Case
    /\ call["seq"].pin = "P9_14"
    /\ call["seq"].status = "raised"

(***************************************************************************)
(* C19.  In configure_gpio_pin the pin-mode call is the first operation    *)
(* and the only one when it fails; otherwise the writes attempted are, in  *)
(* this order, export with the number bank*32+index (only when the node    *)
(* was absent), direction "out" and value "1" or "0", the last two to the  *)
(* node of that number.                                                    *)
(***************************************************************************)
\* every write attempted by the call, completed or not, as <<path, value>>
GpioAttempts ==
    [i \in 1 .. Len(ops["seq"]) - 1 |->
        <<ops["seq"][i + 1].target, ops["seq"][i + 1].value>>]

C19_Case == call["seq"].fn = "configure_gpio_pin" /\ ops["seq"] # <<>>

C19_GpioPinModeThenOrderedWrites ==
    C19_Case =>
        LET f == call["seq"]
        IN /\ ops["seq"][1].kind = "config-pin"
           /\ ops["seq"][1].target = f.pin /\ ops["seq"][1].value = "gpio"
           /\ PinModeRuns("seq") = {1}
           /\ ~ops["seq"][1].ok =>
                 /\ Len(ops["seq"]) = 1
                 /\ f.status = "raised"
                 /\ f.cmds = <<>>
           /\ IsPrefix(GpioAttempts, GpioWrites(f.pin, f.value, f.node_existed))
           /\ f.status = "returned" =>
                 GpioAttempts = GpioWrites(f.pin, f.value, f.node_existed)

\* the WEB indicator (bank 1, index 28) switched off on a host where its node
\* was absent: export 60, direction out, value 0
C19_Witness ==
    /\ C19_Case
    /\ call["seq"].pin = "P9_12"
    /\ call["seq"].status = "returned"
    /\ ~call["seq"].value
    /\ GpioAttempts = << <<"/sys/class/gpio/export", "60">>,
                         <<"/sys/class/gpio/gpio60/direction", "out">>,
                         <<"/sys/class/gpio/gpio60/value", "0">> >>

(***************************************************************************)
(* The connection as the claims state it.                                  *)
(***************************************************************************)
\* the sensor locations of the wire mapping
SensorGroupNames == {"intake", "exhaust"}

\* the client calls of the current on_connect activation that published to
\* the given topic
PublishedAt(topic) ==
    {i \in 1 .. Len(conn.log) : conn.log[i].kind = "publish" /\ conn.log[i].topic = topic}

ConfigDocs == {i \in 1 .. Len(conn.log) : conn.log[i].payload = "config"}

\* an MQTT topic filter matching a topic, segment by segment; + matches any
FilterMatches(filter, topic) ==
    /\ Len(filter) = Len(topic)
    /\ \A k \in 1 .. Len(filter) : filter[k] = "+" \/ filter[k] = topic[k]

(***************************************************************************)
(* C15.  While no shutdown has begun, the last value the client published  *)
(* to {id}/status/online once on_connect has published is "online"; and    *)
(* when stop() has returned after the thread ran its shutdown, the last    *)
(* value the client published there is "offline".  The code does not       *)
(* satisfy this.                                                           *)
(***************************************************************************)
C15_OfflineIsLastStatus ==
    /\ (conn.log # <<>> /\ tel.shutdown = <<>>) => broker.status = "online"
    /\ (stopper.pc = "returned" /\ stopper.started /\ tel.pc = "finished") =>
          broker.status = "offline"

(***************************************************************************)
(* C16.  An on_connect activation publishes at most one discovery document *)
(* per topic, and one that ends without a caught exception has published   *)
(* exactly one retained document per fan location and one per sensor       *)
(* location and no other; the state topic a document names is the topic    *)
(* the client publishes that location's state or telemetry to, and the     *)
(* command topic a fan document names is matched by the client's           *)
(* subscription and taken by on_message as a command for that location.    *)
(***************************************************************************)
C16_Case == conn.pc = "done" /\ conn.failure = "none"

C16_FanDocument(v) ==
    \E i \in 1 .. Len(conn.log) :
        /\ PublishedAt("homeassistant/number/" \o v \o "_fan/config") = {i}
        /\ conn.log[i].retain
        /\ conn.log[i].state_topic = fan_state_topic(RackLocation(v).member)
        /\ conn.log[i].segments = <<DEVICE_ID, "fan", v, "set">>
        /\ \E f \in broker.subscriptions : FilterMatches(f, conn.log[i].segments)
        /\ LET taken == on_message_begin(conn.log[i].segments, DecimalPayload(1))
           IN /\ taken.outcome \notin {"ignored", "error"}
              /\ LocationFans(v) # <<>> =>
                    taken.pc = "controls" /\ taken.controls = LocationPins(v)

C16_SensorDocument(v) ==
    \E i \in 1 .. Len(conn.log) :
        /\ PublishedAt("homeassistant/sensor/" \o v \o "_temperature/config") = {i}
        /\ conn.log[i].retain
        /\ conn.log[i].state_topic = temperature_topic(v)

C17_WillThenOnlineFirst ==
    /\ broker.connected =>
          broker.will = [topic |-> DEVICE_ID \o "/status/online", payload |-> "offline",
                         retain |-> TRUE]
    /\ conn.log # <<>> =>
          /\ conn.log[1].kind = "publish"
          /\ conn.log[1].topic = DEVICE_ID \o "/status/online"
          /\ conn.log[1].payload = "online"
          /\ conn.log[1].retain
          /\ 1 \notin ConfigDocs
    /\ Len(conn.log) >= 2 =>
          /\ conn.log[2].kind = "subscribe"
          /\ conn.log[2].segments = <<DEVICE_ID, "fan", "+", "set">>
          /\ conn.log[2].segments \in broker.subscriptions
    /\ conn.pc = "done" => Len(conn.log) >= 2

\* on_connect at work on the discovery documents of a connected client
C17_Witness ==
    /\ broker.connected
    /\ conn.pc = "on_connect"
    /\ Len(conn.log) = 3
    /\ 3 \in ConfigDocs

(***************************************************************************)
(* C20.  The thread enters its shutdown only with the stop event set; the  *)
(* shutdown steps it has performed are always a prefix of: publish         *)
(* "offline" to {id}/status/online, stop the network loop, disconnect; a   *)
(* thread that finished has performed all three; and no telemetry is       *)
(* published once "offline" has been.                                      *)
(***************************************************************************)
C20_ShutdownInOrder ==
    /\ [](IsPrefix(tel.shutdown, <<"offline", "loop_stop", "disconnect">>))
    /\ [](tel.pc = "finished" => tel.shutdown = <<"offline", "loop_stop", "disconnect">>)
    /\ [](tel.pc \in {"offline", "loop_stop", "disconnect", "finished"} => thread_stop_event)
    /\ [][(tel.shutdown = <<>> /\ tel'.shutdown # <<>>) => broker'.status = "offline"]_vars
    /\ [][tel.shutdown # <<>> => tel'.passlog = tel.passlog]_vars

\* a thread that published both locations in its last pass and then shut down
C20_Witness ==
    /\ tel.pc = "finished"
    /\ thread = "exited"
    /\ Len(tel.passlog) = 2
    /\ tel.shutdown = <<"offline", "loop_stop", "disconnect">>
    /\ broker.status = "offline"

(***************************************************************************)
(* C21.  A thread that entered its shutdown and ended has attempted all    *)
(* three shutdown steps, each once, and ended by returning from            *)
(* thread_target: a failing step neither ends the thread with an unhandled *)
(* error nor keeps the later steps from being attempted.  The code does    *)
(* not satisfy this.                                                       *)
(***************************************************************************)
ShutdownAttempts ==
    tel.shutdown \o (IF tel.failure = "offline" THEN <<"offline">> ELSE <<>>)

C21_ShutdownBestEffort ==
    (thread = "exited" /\ ShutdownAttempts # <<>>) =>
        /\ tel.pc = "finished"
        /\ ShutdownAttempts = <<"offline", "loop_stop", "disconnect">>

(***************************************************************************)
(* C22.  When a pin-mode run or a device write fails while on_message      *)
(* handles a fan-set command, the handler invokes no further fan control,  *)
(* publishes nothing for that message, and returns normally to the network *)
(* loop, which can deliver the next message.                               *)
(***************************************************************************)
HardwareFailures(t) == {i \in 1 .. Len(ops[t]) : ~ops[t][i].ok}

C22_Case == net.pc # "idle" /\ HardwareFailures("net") # {}

C22_HardwareFailureLeavesState ==
    C22_Case =>
        /\ HardwareFailures("net") = {Len(ops["net"])}
        /\ pubs["net"] = <<>>
        /\ net.pc \in {"controls", "done"}
        /\ net.pc = "controls" => call["net"].status = "raised"
        /\ net.pc = "done" =>
              /\ net.outcome = "error"
              /\ call["net"].status = "none"
              /\ netloop = "running"
              /\ CanReceive

\* the handler returned after a device write of its second fan control failed
C22_Witness ==
    /\ C22_Case
    /\ net.pc = "done"
    /\ Len(net.invoked) = 2
    /\ ops["net"][Len(ops["net"])].kind = "echo"

(***************************************************************************)
(* C23.  A failing probe read or telemetry publish does not end the        *)
(* thread: the failing step takes the thread to the sleep of the loop      *)
(* body, and when the pass of a thread whose stop event is not set has     *)
(* failed, the thread is alive at the sleep or at the loop test; from the  *)
(* sleep it goes to the test, and from the test with the event not set it  *)
(* starts another pass at the first location.                              *)
(***************************************************************************)
PassFailed == tel.failure \in {"read", "publish"}

C23_FailingPassKeepsThread ==
    /\ []((PassFailed /\ ~thread_stop_event) =>
             thread = "started" /\ tel.pc \in {"sleep", "test"})
    /\ [][(tel.failure = "none" /\ tel'.failure \in {"read", "publish"}) =>
             thread' = "started" /\ tel'.pc = "sleep"]_vars
    /\ [][(PassFailed /\ tel.pc = "sleep" /\ tel' # tel) => tel'.pc = "test"]_vars
    /\ [][(tel.pc = "test" /\ ~thread_stop_event /\ tel' # tel) =>
             /\ thread' = "started"
             /\ tel'.pc \in {"read", "publish"}
             /\ tel'.loc = 1
             /\ tel'.failure = "none"]_vars

\* after a pass whose read raised the thread has slept and is at the test
C23_Witness ==
    /\ tel.failure = "read"
    /\ tel.pc = "test"
    /\ thread = "started"
    /\ ~thread_stop_event

(***************************************************************************)
(* C24.  A pass begins only from the loop test with the stop event not     *)
(* set; the test made with the event set goes to the shutdown steps; and   *)
(* once the event is set a started thread eventually exits.                *)
(***************************************************************************)
C24_StopObservedAtIterationBoundary ==
    /\ [][(tel' # tel /\ tel'.pc \in {"read", "publish"} /\ tel'.reads = <<>>
              /\ tel'.loc = 1) =>
             tel.pc = "test" /\ ~thread_stop_event]_vars
    /\ [][(tel.pc = "test" /\ thread_stop_event /\ tel' # tel) =>
             tel'.pc = "offline" /\ tel'.passlog = tel.passlog]_vars
    /\ [](tel.pc \in {"offline", "loop_stop", "disconnect", "finished"} =>
             thread_stop_event)
    /\ ((thread_stop_event /\ thread = "started") ~> thread = "exited")

\* the event was set during a pass: the thread finished that pass, slept, ran
\* the shutdown and exited
C24_Witness ==
    /\ thread_stop_event
    /\ thread = "exited"
    /\ tel.pc = "finished"
    /\ stopper.pc = "join"
    /\ Len(tel.passlog) = Len(temperature_readers)

(***************************************************************************)
(* The coordinator as the claims state it.                                 *)
(***************************************************************************)
\* positions in the coordinator's log of the calls of one operation
CoordCalls(op) == {i \in 1 .. Len(coord.log) : coord.log[i].op = op}
\* the surfaces whose non_blocking_run returned, in the order of the calls
StartedSurfaces ==
    LET starts == SelectSeq(coord.log, LAMBDA e : e.op = "non_blocking_run" /\ e.ok)
    IN [i \in 1 .. Len(starts) |-> starts[i].name]
\* the surfaces whose stop() was called, in the order of the calls
StopCalls ==
    LET stops == SelectSeq(coord.log, LAMBDA e : e.op = "stop")
    IN [i \in 1 .. Len(stops) |-> stops[i].name]
RunLeft == coord.pc \in {"returned", "raised"}

(***************************************************************************)
(* C25.  When create_hardware_interface raised, the coordinator has called *)
(* no non_blocking_run, created no surface, started no scheduler, never    *)
(* waits on the stop event, and goes from the except clause through the    *)
(* (empty) finally loop to the return of run, whether or not the stop      *)
(* signal arrives.                                                         *)
(***************************************************************************)
C25_Case ==
    /\ coord.pc \notin {"options", "create"}
    /\ ~coord.hardware_interface

C25_BuildFailureStartsNothing ==
    /\ [](C25_Case =>
             /\ coord.caught
             /\ coord.pc \in {"finally", "returned"}
             /\ coord.log = <<>>
             /\ coord.controller_apis = <<>>
             /\ \A s \in Surfaces : surface[s] = "none"
             /\ scheduler.state = "none")
    /\ [][(C25_Case /\ coord'.pc # coord.pc) =>
             coord.pc = "finally" /\ coord'.pc = "returned"]_vars
    /\ [](C25_Case /\ coord.pc = "finally" => ENABLED RunLeave)

\* run has returned after the build failed, with no stop signal
C25_Witness ==
    /\ C25_Case
    /\ coord.pc = "returned"
    /\ ~coord.signalled
    /\ coord.enable_web_api /\ coord.enable_mqtt_api

(***************************************************************************)
(* C26.  Every non_blocking_run call is preceded by the call that sets the *)
(* fault indicator off, which is the coordinator's first call; and when an *)
(* exception was caught with the hardware interface built, the call that   *)
(* sets the fault indicator on has been made before the finally clause is  *)
(* entered, so before any stop() call.                                     *)
(***************************************************************************)
FaultCalls(value) ==
    {i \in CoordCalls("set_onboard_led") :
        coord.log[i].name = "FAULT" /\ coord.log[i].value = value}

C26_Case == coord.caught /\ coord.hardware_interface

C26_FaultIndicatorOrder ==
    /\ \A i \in CoordCalls("non_blocking_run") :
          /\ 1 \in FaultCalls(FALSE)
          /\ coord.log[1].ok
          /\ \A j \in FaultCalls(TRUE) : j > i
    /\ (coord.hardware_interface /\ coord.pc \notin {"fault_off"}) => 1 \in FaultCalls(FALSE)
    /\ (C26_Case /\ coord.pc # "fault_on") =>
          /\ Cardinality(FaultCalls(TRUE)) = 1
          /\ \A i \in CoordCalls("stop") : \A j \in FaultCalls(TRUE) : j < i
    /\ ~C26_Case => FaultCalls(TRUE) = {}

\* the second surface failed to start: fault on, then the stop() calls
C26_Witness ==
    /\ C26_Case
    /\ RunLeft
    /\ StartedSurfaces = <<"web">>
    /\ coord.log[Len(coord.log) - 2] = CoordCall("set_onboard_led", "FAULT", TRUE, TRUE)
    /\ CoordCalls("stop") # {}

C28_NoHardwareUseAfterShutdown ==
    [][RunLeft =>
          /\ \A s \in Surfaces : surface[s] # "started"
          /\ scheduler'.count = scheduler.count]_vars

(***************************************************************************)
(* C29.  In every state of two fan-power sets racing on the channels of    *)
(* one location, the duty_cycle file of each channel holds a value not     *)
(* above that of its period file; and when both sets have completed all    *)
(* their writes, each channel of the location has period 1000, enable 1    *)
(* and as duty_cycle the duty of one of the two commands.                  *)
(***************************************************************************)
DeviceInts == {0, 1, 1000} \cup {Floor(1000 * n, DutyDen) : n \in 0 .. DutyDen}
FileInt(path) == CHOOSE n \in DeviceInts : ToString(n) = pwmfs[path]
DutyOf(num) == ToString(Floor(1000 * num, DutyDen))

C29_Case ==
    /\ net.pc \in {"publish", "done"}
    /\ FanSetTopic(net.topic)
    /\ net.topic[3] = HttpLocation
    /\ LocationPins(HttpLocation) # <<>>
    /\ Len(Writes("net")) = 3 * Len(LocationPins(HttpLocation))
    /\ http.pc = "done" /\ http.status = 200

C29_RacingSetsLastWriterWins ==
    /\ \A pin \in PWMPin :
          FileInt(PwmAttr(pin, "duty_cycle")) <= FileInt(PwmAttr(pin, "period"))
    /\ C29_Case =>
          \A i \in 1 .. Len(LocationPins(HttpLocation)) :
              LET pin == LocationPins(HttpLocation)[i]
              IN /\ pwmfs[PwmAttr(pin, "period")] = "1000"
                 /\ pwmfs[PwmAttr(pin, "enable")] = "1"
                 /\ pwmfs[PwmAttr(pin, "duty_cycle")]
                       \in {DutyOf(net.payload.num), DutyOf(http.power.num)}

\* both sets completed with their writes interleaved: the first channel was
\* last written by the MQTT command, the second by the HTTP command
C29_Witness ==
    /\ C29_Case
    /\ net.payload.num # http.power.num
    /\ pwmfs[PwmAttr(LocationPins(HttpLocation)[1], "duty_cycle")] = DutyOf(net.payload.num)
    /\ pwmfs[PwmAttr(LocationPins(HttpLocation)[2], "duty_cycle")] = DutyOf(http.power.num)

(***************************************************************************)
(* C30.  Every marking of the enumerations a WireMapping is made of, and   *)
(* every OnboardLED, is a key of the v1.0.0 board-marking table and maps   *)
(* to a pin of the right kind that is a key of the sequencer's table: no   *)
(* lookup of a built interface raises.                                     *)
(***************************************************************************)
C30_Case == lookup.kind # "none"

C30_EveryMarkingResolves ==
    /\ \A g \in 1 .. Len(FanGroups) : \A i \in 1 .. Len(FanGroups[g]) :
          FanGroups[g][i] \in BoardMarkingActiveLowPWM
    /\ C30_Case =>
          /\ lookup.found
          /\ lookup.resolved
          /\ lookup.device # ""
          /\ lookup.kind = "pwm" =>
                /\ lookup.marking \in BoardMarkingActiveLowPWM
                /\ lookup.pin \in PWMPin
          /\ lookup.kind = "thermistor" =>
                /\ lookup.marking \in BoardMarkingThermistorPin
                /\ lookup.pin \in ADCPin
          /\ lookup.kind = "led" =>
                /\ lookup.marking \in OnboardLED
                /\ lookup.pin \in GPIOPin

\* the probe input TMP6, which no example mapping uses, was read
C30_Witness ==
    /\ C30_Case
    /\ lookup.marking = "TMP6"
    /\ lookup.device = "/sys/bus/iio/devices/iio:device0/in_voltage1_raw"

(***************************************************************************)
(* C31: when a blink job and an HTTP indicator request configure the same  *)
(* pin concurrently and its gpio node does not exist yet, the export       *)
(* control file is written at most once for the pin and neither call fails *)
(* because the pin is already exported: no call writes a number to the     *)
(* export file while the node of that number exists.                       *)
(***************************************************************************)
ExportsNow(t) ==
    /\ Len(ops'[t]) = Len(ops[t]) + 1
    /\ ops'[t][Len(ops'[t])].kind = "echo"
    /\ ops'[t][Len(ops'[t])].target = GPIO_EXPORT

C31_ConcurrentExportOnce ==
    [][\A t \in {"seq", "http"} :
          ExportsNow(t) => gpio_num(call[t].pin) \notin gpiofs]_vars

(***************************************************************************)
(* C32.  Whatever fan commands arrive on the HTTP and the MQTT surface,     *)
(* every value a command writes to a duty_cycle file is the decimal form   *)
(* of an integer in 0 .. period, for the period the command wrote to the   *)
(* channel just before it.                                                 *)
(***************************************************************************)
DutyFiles == {PwmAttr(pin, "duty_cycle") : pin \in PWMPin}
PeriodFiles == {PwmAttr(pin, "period") : pin \in PWMPin}
DutyWrites(t) == {i \in WriteAttempts(t) : ops[t][i].target \in DutyFiles}

C32_DutyWithinPeriod ==
    \A t \in {"net", "http"} : \A i \in DutyWrites(t) :
        /\ i > 1
        /\ ops[t][i - 1].target \in PeriodFiles
        /\ ops[t][i - 1].value = ToString(FAN_PERIOD_NS)
        /\ ops[t][i].value \in {ToString(k) : k \in 0 .. FAN_PERIOD_NS}

(***************************************************************************)
(* C33.  When fan-power sets issued to one location through the HTTP and   *)
(* the MQTT surface have all completed successfully and the channels of    *)
(* the location all hold the duty of the power p applied last, the value   *)
(* last published, retained, on {id}/fan/{location}/state is               *)
(* {"power": p}.                                                           *)
(***************************************************************************)
AppliedDuties ==
    {pwmfs[PwmAttr(LocationPins(HttpLocation)[i], "duty_cycle")] :
        i \in 1 .. Len(LocationPins(HttpLocation))}

C33_Case ==
    /\ C29_Case
    /\ net.outcome = "published"
    /\ Cardinality(AppliedDuties) = 1

C33_RetainedStateIsLastApplied ==
    C33_Case =>
        /\ pubs["net"][Len(pubs["net"])].topic
              = DEVICE_ID \o "/fan/" \o HttpLocation \o "/state"
        /\ pubs["net"][Len(pubs["net"])].retain
        /\ \E n \in FanPowerNums :
              /\ pubs["net"][Len(pubs["net"])].payload = json_dumps_power(Fin(n))
              /\ AppliedDuties = {DutyOf(n)}

(***************************************************************************)
(* C34.  stop() called on an MQTT surface handle whose thread was never    *)
(* started does not raise: it sets the stop event and returns.             *)
(***************************************************************************)
C34_StopOnUnstartedReturns ==
    (stopper.pc \in {"raised", "returned"} /\ ~stopper.started /\ thread = "initial")
        => stopper.pc = "returned"

(***************************************************************************)
(* C35.  A probe read that returned exactly 0.0 counts like any other      *)
(* temperature: whenever the telemetry loop has published for a location   *)
(* one of whose reads returned 0.0, the payload is a number, never         *)
(* "unavailable", and it is the mean over all the reads that returned a    *)
(* temperature, the 0.0 ones included.                                     *)
(***************************************************************************)
ZeroReads == {i \in 1 .. Len(tel.reads) : tel.reads[i] = Reading(0)}

C35_ZeroReadingCounts ==
    (tel.pc = "published" /\ ZeroReads # {}) =>
        /\ LastPublished.payload.kind = "float"
        /\ LastPublished.payload.den = Len(SuccessfulReads(tel.reads))

(***************************************************************************)
(* C36.  Once the coordinator has added its blink jobs, a job for the WEB  *)
(* indicator exists only if the web API or the MQTT API is enabled; with   *)
(* both disabled the only blink job is the one for the RUN indicator.      *)
(***************************************************************************)
C36_WebBlinkOnlyWhenEnabled ==
    scheduler.state # "none" =>
        /\ "WEB" \in scheduler.jobs => (coord.enable_web_api \/ coord.enable_mqtt_api)
        /\ (~coord.enable_web_api /\ ~coord.enable_mqtt_api) => scheduler.jobs = {"RUN"}

(***************************************************************************)
(* C37.  When a pin-mode run or a device write of channel k fails while a  *)
(* fan-power set of either surface runs over the channels of a location,   *)
(* the failed operation is the last one the command performs: the writes   *)
(* it has made are the three writes of each channel before k, in order,    *)
(* followed by fewer than three of channel k, and none of a later channel; *)
(* nothing is published for the command, the HTTP request is not answered  *)
(* with a commands body, and the MQTT handler ends in its except clause.   *)
(***************************************************************************)
FailedAt(t, pins, num, k) ==
    /\ HardwareFailures(t) = {Len(ops[t])}
    /\ IsPrefix(Writes(t), ChannelsWrites(pins, FAN_PERIOD_NS, num))
    /\ 3 * (k - 1) <= Len(Writes(t))
    /\ Len(Writes(t)) < 3 * k
    /\ Cardinality(PinModeRuns(t)) = k
    /\ pubs[t] = <<>>

C37_NetCase == net.pc # "idle" /\ HardwareFailures("net") # {}
C37_HttpCase == http.pc # "idle" /\ HardwareFailures("http") # {}

C37_PartialFailureNoRollback ==
    /\ C37_NetCase =>
          /\ FailedAt("net", LocationPins(net.topic[3]), net.payload.num,
                      Len(net.invoked))
          /\ net.pc \in {"controls", "done"}
          /\ net.pc = "done" => net.outcome = "error"
    /\ C37_HttpCase =>
          /\ FailedAt("http", LocationPins(HttpLocation), http.power.num,
                      Len(http.invoked))
          /\ http.pc \in {"controls", "done"}
          /\ http.pc = "done" => http.status = 500

\* both surfaces ended a command at the second of two channels: the HTTP one
\* on its duty_cycle write, the MQTT one on its pin-mode run
C37_Witness ==
    /\ C37_HttpCase
    /\ http.pc = "done"
    /\ Len(http.invoked) = 2
    /\ Len(Writes("http")) = 4
    /\ C37_NetCase
    /\ net.pc = "done"
    /\ Len(net.invoked) = 2
    /\ Len(Writes("net")) = 3

(***************************************************************************)
(* C38.  For revision v1.0.0 the resolution of markings is injective per   *)
(* kind of signal: whatever marking the interface has just resolved, every *)
(* other marking of its kind resolves to another device (another PWM       *)
(* controller and channel, another ADC channel index, another gpio         *)
(* number); and the pins of the GPIO table have pairwise distinct flat     *)
(* numbers bank * 32 + index.                                              *)
(***************************************************************************)
Resolve(kind, marking) ==
    CASE kind = "pwm" -> lookup_pwm(marking)
      [] kind = "thermistor" -> lookup_thermistor(marking)
      [] kind = "led" -> lookup_led(marking)

MarkingsOf(kind) ==
    CASE kind = "pwm" -> BoardMarkingActiveLowPWM
      [] kind = "thermistor" -> BoardMarkingThermistorPin
      [] kind = "led" -> OnboardLED

C38_ResolutionInjective ==
    /\ C30_Case =>
          \A other \in MarkingsOf(lookup.kind) \ {lookup.marking} :
              Resolve(lookup.kind, other).device # lookup.device
    /\ lookup.kind = "thermistor" =>
          \A other \in BoardMarkingThermistorPin \ {lookup.marking} :
              ANALOG_IN_LOOKUP(board_marking_thermistor(other))
                  # ANALOG_IN_LOOKUP(lookup.pin)
    /\ lookup.kind = "led" =>
          \A other \in OnboardLED \ {lookup.marking} :
              gpio_num(board_marking_led(other)) # gpio_num(lookup.pin)
    /\ \A p, q \in GPIOPin : p # q => gpio_num(p) # gpio_num(q)

\* PN3 was resolved to controller 0 channel a, the channel that the pin table
\* also gives to P9_31, a pin no marking of this revision uses
C38_Witness ==
    /\ lookup.kind = "pwm"
    /\ lookup.marking = "PN3"
    /\ lookup.pin = "P9_22"
    /\ lookup.device = device_tree_base_path("P9_31")
====
